---- MODULE Spec2Model ----
(***************************************************************************)
(* A model of flexschema (src/src/flexschema/flexschema.py): the Schema /  *)
(* Field validation engine, the Flex / Flexmodel entities and their        *)
(* persistence in a document store.                                        *)
(*                                                                         *)
(* The specifications of the module, each a caller of the same program:    *)
(*   FieldSpec     a Schema under construction: add_field, Field.evaluate  *)
(*   EntitySpec    entities in memory: construction, update, validation,   *)
(*                 serialization, with any keyword arguments               *)
(*   Spec          Parent and Child entities in the store: commit, load,   *)
(*                 count, delete, the store up or down                     *)
(*   IdentitySpec  the _id of entities, given or generated                 *)
(*   ClockSpec     the _updated_at of entities while time passes           *)
(***************************************************************************)
EXTENDS Integers, Sequences, FiniteSets, TLC

VARIABLES
    fields,     \* Schema.fields of the schema under construction: name -> Field
    input,      \* the Field object the caller passes to add_field
    heap,       \* the live entity instances: object number -> [cls, dict]
    store,      \* the document store: collection (class) -> (_id -> document)
    clock,      \* datetime.now(): the number of ticks so far
    uuids,      \* the number of uuid.uuid4() values drawn so far
    select,     \* the Select of a query: its statements and its sorts
    stmts,      \* the Statement objects made from the Select, in the order made
    call        \* the last call made by the caller, with what it returned

vars == <<fields, input, heap, store, clock, uuids, select, stmts, call>>

(***************************************************************************)
(* Python values.  k is the value's class, n its number (int, float, bool; *)
(* for an entity the number of the instance on the heap; for an opaque     *)
(* string such as a uuid or a timestamp, the number that tells it from the *)
(* other strings of its kind), s its characters (str) or items (list,      *)
(* tuple), d its entries (dict).                                           *)
(***************************************************************************)
NoEntries == [x \in {} |-> 0]

None == [k |-> "NoneType", n |-> 0, s |-> <<>>, d |-> NoEntries]

PyStr(chars) == [k |-> "str", n |-> 0, s |-> chars, d |-> NoEntries]

PyInt(i) == [k |-> "int", n |-> i, s |-> <<>>, d |-> NoEntries]

PyFloat(i) == [k |-> "float", n |-> i, s |-> <<>>, d |-> NoEntries]

PyBool(b) == [k |-> "bool", n |-> IF b THEN 1 ELSE 0, s |-> <<>>, d |-> NoEntries]

PyList(items) == [k |-> "list", n |-> 0, s |-> items, d |-> NoEntries]

PyTuple(items) == [k |-> "tuple", n |-> 0, s |-> items, d |-> NoEntries]

PyDict(entries) == [k |-> "dict", n |-> 0, s |-> <<>>, d |-> entries]

PyObj(cls, ref) == [k |-> cls, n |-> ref, s |-> <<>>, d |-> NoEntries]

\* a dict whose keys keep the order they were inserted in: s is the keys in
\* that order, d the entries (pairs is the items, every key once)
Dict(pairs) ==
    [k |-> "dict", n |-> 0, s |-> [i \in 1..Len(pairs) |-> pairs[i][1]],
     d |-> [key \in {pairs[i][1] : i \in 1..Len(pairs)} |->
              pairs[CHOOSE i \in 1..Len(pairs) : pairs[i][1] = key][2]]]

\* Select.__init__: self.sorts = {} and self.statements = {}
NewSelect == [statements |-> Dict(<<>>), sorts |-> Dict(<<>>)]

\* Optional[...] attributes are sets of at most one element: {} is None.
Some(x) == {x}

The(opt) == CHOOSE x \in opt : TRUE

(***************************************************************************)
(* Types.  The classes a Field may declare, and isinstance.                *)
(***************************************************************************)
Primitives == {"str", "int", "float", "bool", "list", "tuple"}

\* Flex is the plain entity class; Flexmodel and the user's classes derive from it
FlexClasses == {"Account", "Address", "Child", "Parent", "Profile", "Tag", "Team"}

FlexmodelClasses == {"Child", "Parent", "Team"}

\* the classes whose entities the callers of Spec create, load and count
StoredClasses == {"Child", "Parent"}

\* isinstance(value, type): bool is a subclass of int, every other class stands alone
isinstance(value, type) ==
    \/ value.k = type
    \/ value.k = "bool" /\ type = "int"

(***************************************************************************)
(* Schema.Field and Schema.Field.Constraint.                               *)
(*                                                                         *)
(* A Field is [name, type, default, nullable, callback, constraint].       *)
(* nullable is a bool or an int: True is 1 and False is 0, as in Python.   *)
(* callback is "None", the name of a function, or "notcallable" (a truthy  *)
(* object that cannot be called).  constraint is a Constraint, or with     *)
(* wf = FALSE any other truthy object passed in its place.                 *)
(***************************************************************************)
Constraint(item_type, min_length, max_length, pattern) ==
    [wf |-> TRUE, item_type |-> item_type, min_length |-> min_length,
     max_length |-> max_length, pattern |-> pattern]

\* an object that is no Constraint: it has none of a Constraint's attributes
NotAConstraint ==
    [wf |-> FALSE, item_type |-> {}, min_length |-> {}, max_length |-> {},
     pattern |-> {}]

Field(type, default, nullable, callback, constraint) ==
    [name |-> "", type |-> type, default |-> default, nullable |-> nullable,
     callback |-> callback, constraint |-> constraint]

Callables == {"title", "boxed"}

callable(callback) == callback \in Callables

\* the truth value of an Optional[int], of an Optional[str] and of a callback
TruthyInt(opt) == opt # {} /\ The(opt) # 0

TruthyStr(opt) == opt # {} /\ The(opt) # <<>>

TruthyCallback(callback) == callback # "None"

(***************************************************************************)
(* Regular expressions: a pattern is a sequence of literal characters and  *)
(* "." (any character); "(" opens a group that is never closed.            *)
(***************************************************************************)
\* re.compile(pattern) succeeds
re_compile(pattern) == \A i \in 1..Len(pattern) : pattern[i] # "("

\* re.match(pattern, string): the pattern matches at the start of the string
re_match(pattern, string) ==
    /\ Len(string) >= Len(pattern)
    /\ \A i \in 1..Len(pattern) : pattern[i] = "." \/ pattern[i] = string[i]

(***************************************************************************)
(* Schema.add_field(name, field): the checks in the order of the code.     *)
(* The result is the exception raised ("None" when the call returns), the  *)
(* schema's field map and the caller's Field object after the call.        *)
(***************************************************************************)
Raise(exception, flds, field) ==
    [raised |-> exception, fields |-> flds, field |-> field]

\* self.fields[name] = field, on a map that may or may not hold the name
Register(flds, name, field) ==
    [x \in DOMAIN flds \cup {name} |-> IF x = name THEN field ELSE flds[x]]

add_field(flds, name, field) ==
    LET SDE == "SchemaDefinitionException"
        c == field.constraint
    IN
    IF field.type = "NotAType"
    THEN Raise(SDE, flds, field)
    ELSE IF ~(field.type \in Primitives \/ field.type \in FlexClasses)
    THEN Raise(SDE, flds, field)
    \* field.constraint is always truthy: Field.__init__ replaces a falsy one, so
    \* for a list or tuple the next test reads field.constraint.item_type
    ELSE IF field.type \in {"list", "tuple"} /\ ~c.wf
    THEN Raise("AttributeError", flds, field)
    ELSE IF field.type \in {"list", "tuple"} /\ c.item_type = {}
    THEN Raise(SDE, flds, field)
    ELSE IF field.default # None /\ ~isinstance(field.default, field.type)
    THEN Raise(SDE, flds, field)
    ELSE IF field.nullable < 0
    THEN Raise(SDE, flds, field)
    ELSE IF ~c.wf
    THEN Raise(SDE, flds, field)
    ELSE IF TruthyStr(c.pattern) /\ field.type \notin {"int", "float", "str"}
    THEN Raise(SDE, flds, field)
    ELSE IF TruthyStr(c.pattern) /\ ~re_compile(The(c.pattern))
    THEN Raise(SDE, flds, field)
    ELSE IF TruthyCallback(field.callback) /\ ~callable(field.callback)
    THEN Raise(SDE, flds, field)
    ELSE LET named == [field EXCEPT !.name = name]
         IN  Raise("None", Register(flds, name, named), named)

(***************************************************************************)
(* Schema.Field.evaluate(value): the message of the violation found, or    *)
(* NoMessage (Python's None).  A message is the rule it reports and, for   *)
(* an item of a list, the item's index.                                    *)
(***************************************************************************)
Message(rule, index) == [rule |-> rule, index |-> index]

NoMessage == Message("None", 0)

\* the first item of the list that is no instance of the item type, 0 if none
FirstBadItem(items, item_type) ==
    LET bad == {i \in 1..Len(items) : ~isinstance(items[i], item_type)}
    IN  IF bad = {} THEN 0 ELSE CHOOSE i \in bad : \A j \in bad : i <= j

\* a faulty evaluate: null-ness and type are checked, the constraint is not
Field_evaluate_unconstrained(field, value) ==
    IF field.nullable # 0 /\ value = None
    THEN NoMessage
    ELSE IF field.nullable = 0 /\ value = None
    THEN Message("null", 0)
    ELSE IF ~isinstance(value, field.type)
    THEN Message("type", 0)
    ELSE NoMessage

Field_evaluate(field, value) ==
    LET c == field.constraint
        pattern_step ==
            IF TruthyStr(c.pattern) /\ isinstance(value, "str")
               /\ ~re_match(The(c.pattern), value.s)
            THEN Message("pattern", 0)
            ELSE NoMessage
        bounds_step ==
            IF field.type \in {"str", "list", "tuple"}
            THEN IF TruthyInt(c.min_length) /\ Len(value.s) < The(c.min_length)
                 THEN Message("min", 0)
                 ELSE IF TruthyInt(c.max_length) /\ Len(value.s) > The(c.max_length)
                 THEN Message("max", 0)
                 ELSE pattern_step
            ELSE IF field.type \in {"int", "float"}
            THEN IF TruthyInt(c.min_length) /\ The(c.min_length) > 0
                    /\ value.n < The(c.min_length)
                 THEN Message("min", 0)
                 ELSE IF TruthyInt(c.max_length) /\ The(c.max_length) > 0
                         /\ value.n > The(c.max_length)
                 THEN Message("max", 0)
                 ELSE pattern_step
            ELSE pattern_step
    IN
    IF field.nullable # 0 /\ value = None
    THEN NoMessage
    ELSE IF field.nullable = 0 /\ value = None
    THEN Message("null", 0)
    ELSE IF ~isinstance(value, field.type)
    THEN Message("type", 0)
    ELSE IF field.type = "list" /\ c.item_type # {}
            /\ FirstBadItem(value.s, The(c.item_type)) # 0
    THEN Message("item", FirstBadItem(value.s, The(c.item_type)))
    ELSE bounds_step

\* Schema.Field.is_valuable(value)
is_valuable(field, value) == Field_evaluate(field, value) = NoMessage

(***************************************************************************)
(* FieldSpec: a caller builds one Field, registers it in an empty Schema   *)
(* with add_field and evaluates values against the registered field.       *)
(***************************************************************************)
MaxStrLen == 3

MaxItems == 2

FieldNames == {"f"}

FieldTypes ==
    {"str", "int", "float", "bool", "list", "tuple", "dict", "Address", "NotAType"}

\* the sequences over a set of elements, up to a length
RECURSIVE SeqsUpTo(_, _)
SeqsUpTo(elements, len) ==
    IF len = 0
    THEN {<<>>}
    ELSE LET shorter == SeqsUpTo(elements, len - 1)
         IN  shorter \cup {Append(q, e) : q \in shorter, e \in elements}

Strings == {PyStr(chars) : chars \in SeqsUpTo({"a", "b"}, MaxStrLen)}

Items == {PyInt(2), PyStr(<<"a">>)}

FieldValues ==
    {None, PyInt(0), PyInt(2), PyInt(5), PyFloat(2), PyBool(TRUE),
     PyObj("Address", 1), PyObj("Child", 1), PyTuple(<<PyInt(2)>>)}
    \cup Strings
    \cup {PyList(items) : items \in SeqsUpTo(Items, MaxItems)}

FieldDefaults ==
    {None, PyStr(<<"a">>), PyInt(2), PyList(<<PyInt(2)>>), PyObj("Address", 1)}

FieldNullables == {-1, 0, 1}

FieldCallbacks == {"None", "title", "notcallable"}

FieldConstraints ==
    {NotAConstraint}
    \cup {Constraint(item_type, min_length, max_length, pattern) :
            item_type \in {{}, {"str"}},
            min_length \in {{}, {3}},
            max_length \in {{}, {1}},
            pattern \in {{}, {<<"b">>}, {<<"(">>}}}

FieldInputs ==
    {Field(type, default, nullable, callback, constraint) :
        type \in FieldTypes, default \in FieldDefaults,
        nullable \in FieldNullables, callback \in FieldCallbacks,
        constraint \in FieldConstraints}

NoCall == [op |-> "none"]

FieldInit ==
    /\ fields = NoEntries
    /\ input \in FieldInputs
    /\ heap = NoEntries
    /\ store = NoEntries
    /\ clock = 0
    /\ uuids = 0
    /\ select = NewSelect
    /\ stmts = <<>>
    /\ call = NoCall

\* schema.add_field(name, input)
AddField(name) ==
    LET r == add_field(fields, name, input)
    IN  /\ fields' = r.fields
        /\ input' = r.field
        /\ call' = [op |-> "add_field", name |-> name, raised |-> r.raised,
                    before |-> fields, field |-> input]
        /\ UNCHANGED <<heap, store, clock, uuids, select, stmts>>

\* schema.fields[name].evaluate(value)
Evaluate(name, value) ==
    /\ name \in DOMAIN fields
    /\ call' = [op |-> "evaluate", name |-> name, value |-> value,
                result |-> Field_evaluate(fields[name], value)]
    /\ UNCHANGED <<fields, input, heap, store, clock, uuids, select, stmts>>

AddFieldStep == \E name \in FieldNames : AddField(name)

EvaluateStep == \E name \in FieldNames, value \in FieldValues : Evaluate(name, value)

FieldNext == AddFieldStep \/ EvaluateStep

FieldSpec == FieldInit /\ [][FieldNext]_vars

(***************************************************************************)
(* Claims about the validation engine, checked under FieldSpec.            *)
(***************************************************************************)

\* C1: for every field that add_field accepted with a non-null default,
\* evaluate(default) returns None (no violation), whatever the field's type,
\* nullability and constraint.
C1_DefaultPassesEvaluate ==
    (/\ call.op = "evaluate"
     /\ fields[call.name].default # None
     /\ call.value = fields[call.name].default)
    => call.result = NoMessage

\* the defects of a Field for which the contract of add_field promises the
\* schema-definition error
DefectiveField(field) ==
    \/ field.type \notin Primitives \cup FlexClasses
    \/ field.type \in {"list", "tuple"} /\ field.constraint.item_type = {}
    \/ field.default # None /\ ~isinstance(field.default, field.type)
    \/ field.nullable < 0
    \/ ~field.constraint.wf
    \/ /\ field.constraint.pattern # {}
       /\ field.type \notin {"str", "int", "float"}
    \/ /\ field.constraint.pattern # {}
       /\ ~re_compile(The(field.constraint.pattern))
    \/ field.callback # "None" /\ ~callable(field.callback)

\* C2: add_field raises the schema-definition error whenever the field has one
\* of the listed defects, and whenever it raises the schema's field map is
\* unchanged and the field keeps no name.
C2_AddFieldRejects ==
    call.op = "add_field" =>
        /\ DefectiveField(call.field) => call.raised = "SchemaDefinitionException"
        /\ call.raised # "None" => fields = call.before /\ input.name = ""

\* str(value) of a scalar
Digits == <<"0", "1", "2", "3", "4", "5", "6", "7", "8", "9">>

TextOf(value) ==
    IF value.k = "str" THEN value.s
    ELSE IF value.k = "int" THEN <<Digits[value.n + 1]>>
    ELSE IF value.k = "float" THEN <<Digits[value.n + 1], ".", "0">>
    ELSE IF value.n = 1 THEN <<"T", "r", "u", "e">>
    ELSE <<"F", "a", "l", "s", "e">>

\* the rules of a field, in the order of the contract, each stated on its own:
\* the message of the first rule the value violates
FirstViolation(field, value) ==
    LET c == field.constraint
        size == IF field.type \in {"int", "float"} THEN value.n ELSE Len(value.s)
        bounded == field.type \in {"str", "list", "tuple", "int", "float"}
    IN
    IF value = None
    THEN IF field.nullable = 0 THEN Message("null", 0) ELSE NoMessage
    ELSE IF ~isinstance(value, field.type)
    THEN Message("type", 0)
    ELSE IF field.type = "list" /\ c.item_type # {}
            /\ \E i \in 1..Len(value.s) : ~isinstance(value.s[i], The(c.item_type))
    THEN Message("item", FirstBadItem(value.s, The(c.item_type)))
    ELSE IF bounded /\ c.min_length # {} /\ size < The(c.min_length)
    THEN Message("min", 0)
    ELSE IF bounded /\ c.max_length # {} /\ size > The(c.max_length)
    THEN Message("max", 0)
    ELSE IF c.pattern # {} /\ field.type \in {"str", "int", "float"}
            /\ ~re_match(The(c.pattern), TextOf(value))
    THEN Message("pattern", 0)
    ELSE NoMessage

\* C3: evaluate(value) returns None only if the value violates no rule, and
\* otherwise the message of the first violated rule in the order null value,
\* type, item types (list fields), minimum, maximum, pattern.
C3_FirstViolationWins ==
    call.op = "evaluate" =>
        call.result = FirstViolation(fields[call.name], call.value)

\* the same, for the values that are not numbers held against a pattern
C3_FirstViolationWinsOnText ==
    (/\ call.op = "evaluate"
     /\ ~(fields[call.name].constraint.pattern # {} /\ call.value.k # "str"))
    => call.result = FirstViolation(fields[call.name], call.value)

(***************************************************************************)
(* The entity classes of the model and their schemas.                      *)
(*   Address(Flex):     Schema(city=field(str, nullable=False))            *)
(*   Child(Flexmodel):  Schema.ident(label=field(str, nullable=False))     *)
(*   Parent(Flexmodel): Schema.ident(name=field(str, nullable=False),      *)
(*                                   child=field(Child))                   *)
(*   Profile(Flex):     Schema(motto=field(str, default="a",               *)
(*                                         callback=lambda v: v.title()),  *)
(*                             owner=field(Child, callback=lambda v: [v])) *)
(*   Account(Flex):     Schema(profile=field(Profile, nullable=False,      *)
(*                                 default=Profile(),                      *)
(*                                 callback=lambda v: [v]),                *)
(*                             friends=field(list, default=[],             *)
(*                                 constraint=field_constraint(            *)
(*                                     item_type=Child),                   *)
(*                                 callback=lambda v: [v]))                *)
(*   Tag(Flex):         Schema(text=field(str, default="a",                *)
(*                                        callback=lambda v: v.title()),   *)
(*                             size=field(int, nullable=False, default=2)) *)
(* Profile() in the schema of Account is one instance, made when the class *)
(* is defined: the instance DefaultProfile of the heap.                    *)
(***************************************************************************)
\* str(uuid.uuid4()): the i-th uuid drawn
Uuid(i) == [k |-> "str", n |-> i, s |-> <<"uuid">>, d |-> NoEntries]

\* datetime.now(timezone.utc).isoformat() at tick t
Timestamp(t) == [k |-> "str", n |-> t, s |-> <<"iso">>, d |-> NoEntries]

\* Schema.Field.Constraint(): no rule
NoConstraint == Constraint({}, {}, {}, {})

\* Schema(**fields): add_field for every field, in the order given
RECURSIVE Schema_init(_)
Schema_init(pairs) ==
    IF pairs = <<>>
    THEN NoEntries
    ELSE LET last == pairs[Len(pairs)]
         IN  add_field(Schema_init(SubSeq(pairs, 1, Len(pairs) - 1)),
                       last[1], last[2]).fields

\* the uuid drawn when Schema.ident builds the class's schema: Team's, then
\* Parent's, then Child's
DefaultId(cls) ==
    IF cls = "Team" THEN Uuid(0) ELSE IF cls = "Parent" THEN Uuid(1) ELSE Uuid(2)

\* Schema.ident(**fields): _id and _updated_at, defaulted when the class is defined
Schema_ident(cls, pairs) ==
    <<  <<"_id", Field("str", DefaultId(cls), 1, "None", NoConstraint)>>,
        <<"_updated_at", Field("str", Timestamp(0), 1, "None", NoConstraint)>>  >>
    \o pairs

\* the instance that Profile(), the default of Account.profile, made
DefaultProfile == 1

ClassFields(cls) ==
    IF cls = "Profile"
    THEN <<  <<"motto", Field("str", PyStr(<<"a">>), 1, "title", NoConstraint)>>,
             <<"owner", Field("Child", None, 1, "boxed", NoConstraint)>>  >>
    ELSE IF cls = "Account"
    THEN <<  <<"profile", Field("Profile", PyObj("Profile", DefaultProfile), 0,
                                "boxed", NoConstraint)>>,
             <<"friends", Field("list", PyList(<<>>), 1, "boxed",
                                Constraint({"Child"}, {}, {}, {}))>>  >>
    ELSE IF cls = "Tag"
    THEN <<  <<"text", Field("str", PyStr(<<"a">>), 1, "title", NoConstraint)>>,
             <<"size", Field("int", PyInt(2), 0, "None", NoConstraint)>>  >>
    ELSE IF cls = "Parent"
    THEN Schema_ident(cls,
            <<  <<"name", Field("str", None, 0, "None", NoConstraint)>>,
                <<"child", Field("Child", None, 1, "None", NoConstraint)>>  >>)
    ELSE IF cls = "Child"
    THEN Schema_ident(cls,
            <<  <<"label", Field("str", None, 0, "None", NoConstraint)>>  >>)
    ELSE IF cls = "Team"
    THEN Schema_ident(cls,
            <<  <<"members", Field("list", PyList(<<>>), 1, "None",
                                   Constraint({"Child"}, {}, {}, {}))>>,
                <<"partner", Field("Team", None, 1, "None", NoConstraint)>>  >>)
    ELSE <<  <<"city", Field("str", None, 0, "None", NoConstraint)>>  >>

\* the schemas, built once when the classes are defined
Schemas == [cls \in FlexClasses |-> Schema_init(ClassFields(cls))]

SchemasNames ==
    [cls \in FlexClasses |->
        [i \in 1..Len(ClassFields(cls)) |-> ClassFields(cls)[i][1]]]

\* cls.schema.fields, and its names in the order of the declaration
Schema(cls) == Schemas[cls]

SchemaNames(cls) == SchemasNames[cls]

\* Schema.__getitem__(name): the field, or Schema.Field(str) for an unknown name
Schema_getitem(cls, name) ==
    IF name \in DOMAIN Schema(cls)
    THEN Schema(cls)[name]
    ELSE Field("str", None, 1, "None", NoConstraint)

\* dict.get(key, default)
Get(map, key, default) == IF key \in DOMAIN map THEN map[key] ELSE default

\* map[key] = value
Put(map, key, value) ==
    [x \in DOMAIN map \cup {key} |-> IF x = key THEN value ELSE map[x]]

\* isinstance(value, Flex) and isinstance(value, Flexmodel)
IsFlex(value) == value.k \in FlexClasses

IsFlexmodel(value) == value.k \in FlexmodelClasses

(***************************************************************************)
(* Entities.  A world w is [heap, store, uuids]: the instances, the        *)
(* documents of every collection and the uuids drawn.  An operation that   *)
(* may change the world returns [w, ret, raised]: the world after it, what *)
(* it returned and the exception it raised ("None" when it returned).      *)
(***************************************************************************)
Return(w, ret) == [w |-> w, ret |-> ret, raised |-> "None"]

\* x = value, then Op(x): the value is computed once, as a statement computes it
Bind(value, Op(_)) == CHOOSE result \in {Op(x) : x \in {value}} : TRUE

Raised(w, exception) == [w |-> w, ret |-> None, raised |-> exception]

\* bool(value)
Truthy(value) ==
    IF value.k = "NoneType" THEN FALSE
    ELSE IF value.k \in {"str", "list", "tuple"} THEN value.s # <<>>
    ELSE IF value.k \in {"int", "float", "bool"} THEN value.n # 0
    ELSE IF value.k = "dict" THEN DOMAIN value.d # {}
    ELSE TRUE

\* a faulty id: a uuid is drawn at every read
Flexmodel_id_fresh(w, o) ==
    Return([w EXCEPT !.heap[o].dict = Put(@, "_id", Uuid(w.uuids + 1)),
                     !.uuids = @ + 1], Uuid(w.uuids + 1))

\* the property Flexmodel.id: draws a uuid when _id is missing or is the default
Flexmodel_id(w, o) ==
    LET self == w.heap[o]
        fresh == Uuid(w.uuids + 1)
    IN  IF \/ "_id" \notin DOMAIN self.dict
           \/ self.dict["_id"] = Schema_getitem(self.cls, "_id").default
        THEN Return([w EXCEPT !.heap[o].dict = Put(@, "_id", fresh),
                              !.uuids = @ + 1], fresh)
        ELSE Return(w, self.dict["_id"])

RECURSIVE Flex_update_from(_, _, _, _)
RECURSIVE Update(_, _, _)
RECURSIVE Construct(_, _, _)
RECURSIVE Flexmodel_load(_, _, _)

\* a faulty loop: the value an entity holds is forgotten for the default
Flex_update_from_defaults(w, o, data, i) ==
    LET names == SchemaNames(w.heap[o].cls) IN
    IF i > Len(names)
    THEN w
    ELSE Flex_update_from(
           [w EXCEPT !.heap[o].dict =
              Put(@, names[i],
                  Get(data, names[i], Schema(w.heap[o].cls)[names[i]].default))],
           o, data, i + 1)

\* the loop of Flex.update over the schema's fields, from the i-th on
Flex_update_from(w, o, data, i) ==
    LET cls == w.heap[o].cls
        names == SchemaNames(cls)
    IN
    IF i > Len(names)
    THEN w
    ELSE
      LET name == names[i]
          field == Schema(cls)[name]
          value == Get(data, name, Get(w.heap[o].dict, name, field.default))
      IN  Bind(IF /\ field.type \in FlexmodelClasses
                  /\ value.k = "dict"
                  /\ Truthy(Get(value.d, "$id", None))
               THEN Flexmodel_load(w, field.type, value.d["$id"])
               ELSE IF field.type \in FlexClasses /\ value.k = "dict"
               THEN Bind(Construct(w, field.type, NoEntries),
                         LAMBDA made : Update(made.w, made.ret.n, value.d))
               ELSE Return(w, value),
               LAMBDA coerced :
                 Flex_update_from(
                   [coerced.w EXCEPT !.heap[o].dict = Put(@, name, coerced.ret)],
                   o, data, i + 1))

\* Flex.update(**data)
Flex_update(w, o, data) ==
    Return(Flex_update_from(w, o, data, 1), PyObj(w.heap[o].cls, o))

\* Flexmodel.update(**data): Flex.update, then a uuid in place of a default _id
Flexmodel_update(w, o, data) ==
    Bind(Flex_update(w, o, data), LAMBDA result :
      LET self == result.w.heap[o]
      IN  IF /\ "_id" \notin DOMAIN data
             /\ Get(self.dict, "_id", None) = Schema_getitem(self.cls, "_id").default
          THEN Return(Flexmodel_id(result.w, o).w, result.ret)
          ELSE result)

\* self.update(**data), dispatched on the class of self
Update(w, o, data) ==
    IF w.heap[o].cls \in FlexmodelClasses
    THEN Flexmodel_update(w, o, data)
    ELSE Flex_update(w, o, data)

\* cls(**data): Flex.__init__ on a new instance
Construct(w, cls, data) ==
    LET o == Len(w.heap) + 1
        made == [w EXCEPT !.heap = Append(@, [cls |-> cls, dict |-> NoEntries])]
    IN  Update(made, o, data)

\* cls.load(id), the store answering
Flexmodel_load(w, cls, id) ==
    IF id \in DOMAIN w.store[cls]
    THEN Construct(w, cls, w.store[cls][id])
    ELSE Return(w, None)

(***************************************************************************)
(* Validation of an entity: the boolean gate and the diagnostic traversal. *)
(* Both recurse into nested entities; the recursion is cut after `depth`   *)
(* nested calls, where Python raises RecursionError (a chain of distinct   *)
(* instances is never longer than the heap, so only a cycle gets there).   *)
(***************************************************************************)
RECURSIVE is_submittable_from(_, _, _, _, _)

\* the loop of Schema.is_submittable(data) over the fields, from the i-th on:
\* "True", "False" or "RecursionError"
is_submittable_from(heap_, cls, data, i, depth) ==
    LET names == SchemaNames(cls) IN
    IF i > Len(names)
    THEN "True"
    ELSE
      LET field == Schema(cls)[names[i]]
          item == Get(data, names[i], field.default)
      IN  IF IsFlex(item)      \* hasattr(item, "schema"), a Schema
          THEN IF depth = 0
               THEN "RecursionError"
               ELSE Bind(is_submittable_from(
                           heap_, item.k, heap_[item.n].dict, 1, depth - 1),
                         LAMBDA nested :
                           IF nested = "True"
                           THEN is_submittable_from(heap_, cls, data, i + 1, depth)
                           ELSE nested)
          ELSE IF ~is_valuable(field, item)
          THEN "False"
          ELSE is_submittable_from(heap_, cls, data, i + 1, depth)

\* Schema.is_submittable(data), for the schema of a class
is_submittable(heap_, cls, data) ==
    is_submittable_from(heap_, cls, data, 1, Len(heap_))

\* Flexmodel.is_committable()
is_committable(heap_, o) ==
    is_submittable(heap_, heap_[o].cls, heap_[o].dict)

RECURSIVE Flex_evaluate_from(_, _, _, _, _)

\* an entry of the map Flex.evaluate returns: a field's message, or the map of
\* the nested entity the field holds
Report(message, nested) == [message |-> message, nested |-> nested]

\* the loop of Flex.evaluate() over the fields, from the i-th on, adding to the
\* messages found so far: [raised, messages]
Flex_evaluate_from(heap_, o, i, messages, depth) ==
    LET cls == heap_[o].cls
        names == SchemaNames(cls)
    IN
    IF i > Len(names)
    THEN [raised |-> "None", messages |-> messages]
    ELSE
      LET name == names[i]
          field == Schema(cls)[name]
          value == Get(heap_[o].dict, name, field.default)
          e == Field_evaluate(field, value)
          own == IF e # NoMessage
                 THEN Put(messages, name, Report(e, NoEntries))
                 ELSE messages
      IN  IF IsFlex(value)
          THEN IF depth = 0
               THEN [raised |-> "RecursionError", messages |-> NoEntries]
               ELSE Bind(Flex_evaluate_from(heap_, value.n, 1, NoEntries, depth - 1),
                         LAMBDA nested :
                           IF nested.raised # "None"
                           THEN nested
                           ELSE Flex_evaluate_from(
                                  heap_, o, i + 1,
                                  IF DOMAIN nested.messages # {}
                                  THEN Put(own, name,
                                           Report(NoMessage, nested.messages))
                                  ELSE own,
                                  depth))
          ELSE Flex_evaluate_from(heap_, o, i + 1, own, depth)

\* Flex.evaluate()
Flex_evaluate(heap_, o) == Flex_evaluate_from(heap_, o, 1, NoEntries, Len(heap_))

(***************************************************************************)
(* Serialization.  The values a field of the model's entities holds are    *)
(* None, scalars, entities, and lists and dicts of these.                  *)
(***************************************************************************)
\* field.callback(value), for the functions a schema may name:
\* "title" is lambda v: v.title() and "boxed" is lambda v: [v]
CallbackRaises(callback, value) == callback = "title" /\ value.k # "str"

ApplyCallback(callback, value) ==
    IF callback = "title" /\ value.k = "str" /\ value.s # <<>>
    THEN [value EXCEPT !.s[1] =
            IF @ = "a" THEN "A" ELSE IF @ = "b" THEN "B" ELSE @]
    ELSE IF callback = "boxed"
    THEN PyList(<<value>>)
    ELSE value

RECURSIVE Flex_to_dict_from(_, _, _, _, _, _)
RECURSIVE serialize(_, _, _, _)
RECURSIVE SerializeItems(_, _, _, _, _, _)
RECURSIVE SerializeEntries(_, _, _, _, _, _)

\* the keys of a dict, one after the other
RECURSIVE KeysOf(_)
KeysOf(keys) ==
    IF keys = {}
    THEN <<>>
    ELSE LET key == CHOOSE x \in keys : TRUE
         IN  <<key>> \o KeysOf(keys \ {key})

\* [serialize(item) for item in value], from the i-th item on
SerializeItems(w, items, commit, i, done, depth) ==
    IF i > Len(items)
    THEN Return(w, PyList(done))
    ELSE Bind(serialize(w, items[i], commit, depth), LAMBDA item :
           IF item.raised # "None"
           THEN item
           ELSE SerializeItems(item.w, items, commit, i + 1,
                               Append(done, item.ret), depth))

\* {k: serialize(v) for k, v in value.items()}, from the i-th key on
SerializeEntries(w, entries, commit, keys, done, depth) ==
    IF keys = <<>>
    THEN Return(w, PyDict(done))
    ELSE Bind(serialize(w, entries[Head(keys)], commit, depth), LAMBDA entry :
           IF entry.raised # "None"
           THEN entry
           ELSE SerializeEntries(entry.w, entries, commit, Tail(keys),
                                 Put(done, Head(keys), entry.ret), depth))

\* serialize(value) of Flex.to_dict(commit), before the field's callback
serialize(w, value, commit, depth) ==
    IF commit /\ IsFlexmodel(value)
    THEN Bind(Flexmodel_id(w, value.n), LAMBDA id :
           Return(id.w, PyDict([x \in {"$id"} |-> id.ret])))
    ELSE IF IsFlex(value)
    THEN IF depth = 0
         THEN Raised(w, "RecursionError")
         ELSE \* value.to_dict(): the nested entity is serialized with commit=False
              Flex_to_dict_from(w, value.n, FALSE, 1, NoEntries, depth - 1)
    ELSE IF value.k = "list"
    THEN SerializeItems(w, value.s, commit, 1, <<>>, depth)
    ELSE IF value.k = "dict"
    THEN SerializeEntries(w, value.d, commit, KeysOf(DOMAIN value.d), NoEntries, depth)
    ELSE Return(w, value)

\* a faulty serialization: a field that holds None is left out of the dict
Flex_to_dict_from_sparse(w, o, commit, i, entries, depth) ==
    LET cls == w.heap[o].cls
        names == SchemaNames(cls)
    IN
    IF i > Len(names)
    THEN Return(w, PyDict(entries))
    ELSE
      LET name == names[i]
          field == Schema(cls)[name]
          value == Get(w.heap[o].dict, name, field.default)
      IN  IF value = None
          THEN Flex_to_dict_from(w, o, commit, i + 1, entries, depth)
          ELSE Flex_to_dict_from(
                 w, o, commit, i + 1,
                 Put(entries, name,
                     IF callable(field.callback)
                     THEN ApplyCallback(field.callback, value)
                     ELSE value),
                 depth)

\* the entries of Flex.to_dict(commit) for the fields from the i-th on, added
\* to the entries so far; serialize(value, field) is the body of the loop
Flex_to_dict_from(w, o, commit, i, entries, depth) ==
    LET cls == w.heap[o].cls
        names == SchemaNames(cls)
    IN
    IF i > Len(names)
    THEN Return(w, PyDict(entries))
    ELSE
      LET name == names[i]
          field == Schema(cls)[name]
          value == Get(w.heap[o].dict, name, field.default)
          called(v) == IF callable(field.callback)
                       THEN ApplyCallback(field.callback, v)
                       ELSE v
      IN  Bind(serialize(w, value, commit, depth), LAMBDA serialized :
            IF serialized.raised # "None"
            THEN serialized
            ELSE IF /\ ~(commit /\ IsFlexmodel(value))
                    /\ callable(field.callback)
                    /\ CallbackRaises(field.callback, serialized.ret)
            THEN Raised(serialized.w, "AttributeError")
            ELSE Flex_to_dict_from(
                   serialized.w, o, commit, i + 1,
                   Put(entries, name,
                       \* the reference to an entity is returned at once,
                       \* before any callback
                       IF commit /\ IsFlexmodel(value)
                       THEN serialized.ret
                       ELSE called(serialized.ret)),
                   depth))

\* Flex.to_dict(commit)
Flex_to_dict(w, o, commit) ==
    Flex_to_dict_from(w, o, commit, 1, NoEntries, Len(w.heap))

(***************************************************************************)
(* The store (pymongo), one collection per Flexmodel class: _id -> the     *)
(* document.  io is "up", or "down" when the store raises an I/O failure.  *)
(***************************************************************************)
StoreError == "PyMongoError"

PyTrue == PyBool(TRUE)

PyFalse == PyBool(FALSE)

\* a faulty store: the write is acknowledged and lost
replace_one_lost(w, cls, id, document, io) ==
    IF io = "down" THEN Raised(w, StoreError) ELSE Return(w, PyTrue)

\* collection.replace_one({"_id": id}, document, upsert=True).acknowledged
replace_one(w, cls, id, document, io) ==
    IF io = "down"
    THEN Raised(w, StoreError)
    ELSE Return([w EXCEPT !.store[cls] = Put(@, id, document.d)], PyTrue)

\* collection.delete_one({"_id": id}).deleted_count > 0
delete_one(w, cls, id, io) ==
    IF io = "down"
    THEN Raised(w, StoreError)
    ELSE IF id \in DOMAIN w.store[cls]
    THEN Return([w EXCEPT !.store[cls] =
                    [x \in DOMAIN @ \ {id} |-> @[x]]], PyTrue)
    ELSE Return(w, PyFalse)

\* the entities among the values of self.__dict__, in the order of the fields
FlexmodelItems(w, o) ==
    LET names == SchemaNames(w.heap[o].cls)
        F[i \in 0..Len(names)] ==
            IF i = 0 THEN <<>>
            ELSE LET value == Get(w.heap[o].dict, names[i], None)
                 IN  IF names[i] \in DOMAIN w.heap[o].dict /\ IsFlexmodel(value)
                     THEN Append(F[i - 1], value.n)
                     ELSE F[i - 1]
    IN  F[Len(names)]

RECURSIVE Flexmodel_commit(_, _, _, _, _)
RECURSIVE CommitItems(_, _, _, _, _)

\* a faulty commit: the entity is not asked whether it is committable
Flexmodel_commit_ungated(w, o, commit_all, now, io) ==
    Bind(IF commit_all
         THEN CommitItems(w, FlexmodelItems(w, o), 1, now, io)
         ELSE Return(w, PyTrue), LAMBDA nested :
    IF nested.raised # "None" \/ nested.ret = PyFalse
    THEN nested
    ELSE
      Bind(Update(nested.w, o, [x \in {"_updated_at"} |-> Timestamp(now)]),
           LAMBDA updated :
      Bind(Flexmodel_id(updated.w, o), LAMBDA id :
      Bind(Flex_to_dict(id.w, o, commit_all), LAMBDA document :
        IF document.raised # "None"
        THEN document
        ELSE replace_one(document.w, w.heap[o].cls, id.ret, document.ret, io)))))

\* a faulty commit: the document is serialized before _updated_at is refreshed
Flexmodel_commit_stale(w, o, commit_all, now, io) ==
    Bind(is_committable(w.heap, o), LAMBDA gate :
    IF gate = "RecursionError"
    THEN Raised(w, "RecursionError")
    ELSE IF gate = "False"
    THEN Return(w, PyFalse)
    ELSE
      Bind(IF commit_all
           THEN CommitItems(w, FlexmodelItems(w, o), 1, now, io)
           ELSE Return(w, PyTrue), LAMBDA nested :
      IF nested.raised # "None" \/ nested.ret = PyFalse
      THEN nested
      ELSE
        Bind(Flexmodel_id(nested.w, o), LAMBDA id :
        Bind(Flex_to_dict(id.w, o, commit_all), LAMBDA document :
        Bind(Update(document.w, o, [x \in {"_updated_at"} |-> Timestamp(now)]),
             LAMBDA updated :
          IF document.raised # "None"
          THEN document
          ELSE replace_one(updated.w, w.heap[o].cls, id.ret, document.ret, io))))))

\* the loop of commit over the nested entities: item.commit() for each, until
\* one returns False
CommitItems(w, items, i, now, io) ==
    IF i > Len(items)
    THEN Return(w, PyTrue)
    ELSE Bind(Flexmodel_commit(w, items[i], TRUE, now, io), LAMBDA done :
           IF done.raised # "None" \/ done.ret = PyFalse
           THEN done
           ELSE CommitItems(done.w, items, i + 1, now, io))

\* Flexmodel.commit(commit_all) at time now
Flexmodel_commit(w, o, commit_all, now, io) ==
    Bind(is_committable(w.heap, o), LAMBDA gate :
    IF gate = "RecursionError"
    THEN Raised(w, "RecursionError")
    ELSE IF gate = "False"
    THEN Return(w, PyFalse)
    ELSE
      Bind(IF commit_all
           THEN CommitItems(w, FlexmodelItems(w, o), 1, now, io)
           ELSE Return(w, PyTrue), LAMBDA nested :
      IF nested.raised # "None" \/ nested.ret = PyFalse
      THEN nested
      ELSE
        Bind(Update(nested.w, o, [x \in {"_updated_at"} |-> Timestamp(now)]),
             LAMBDA updated :
        Bind(Flexmodel_id(updated.w, o), LAMBDA id :
        Bind(Flex_to_dict(id.w, o, commit_all), LAMBDA document :
          IF document.raised # "None"
          THEN document
          ELSE replace_one(document.w, w.heap[o].cls, id.ret, document.ret, io))))))

\* Flexmodel.delete()
Flexmodel_delete(w, o, io) ==
    Bind(Flexmodel_id(w, o), LAMBDA id :
      delete_one(id.w, w.heap[o].cls, id.ret, io))

\* Flexmodel.load(id): collection.find_one({"_id": id}), then cls(**document)
Load(w, cls, id, io) ==
    IF io = "down"
    THEN Raised(w, StoreError)
    ELSE Flexmodel_load(w, cls, id)

\* Flexmodel.count(): collection.count_documents({})
Flexmodel_count(w, cls, io) ==
    IF io = "down"
    THEN Raised(w, StoreError)
    ELSE Return(w, PyInt(Cardinality(DOMAIN w.store[cls])))

(***************************************************************************)
(* Callers.  A caller constructs entities, updates them, validates,        *)
(* serializes, commits, deletes, loads and counts them, while time passes. *)
(* call records the last operation: its arguments, what it returned and    *)
(* the exception it raised.                                                *)
(***************************************************************************)
MaxObjects == 2

MaxUuids == 4

MaxClock == 1

MaxKeys == 1

MaxDocs == 2

\* the world of the current state
World == [heap |-> heap, store |-> store, uuids |-> uuids]

Objects == 1..Len(heap)

Flexmodels == {o \in Objects : heap[o].cls \in FlexmodelClasses}

IoStates == {"up", "down"}

Init ==
    /\ fields = NoEntries
    /\ input = Field("str", None, 1, "None", NoConstraint)
    /\ heap = <<>>
    /\ store = [cls \in FlexmodelClasses |-> NoEntries]
    /\ clock = 0
    /\ uuids = 2
    /\ select = NewSelect
    /\ stmts = <<>>
    /\ call = NoCall

\* the state after an operation that returned or raised r
Becomes(r) ==
    /\ Len(r.w.heap) <= MaxObjects
    /\ r.w.uuids <= MaxUuids
    /\ \A cls \in FlexmodelClasses : Cardinality(DOMAIN r.w.store[cls]) <= MaxDocs
    /\ heap' = r.w.heap
    /\ store' = r.w.store
    /\ uuids' = r.w.uuids
    /\ UNCHANGED <<fields, input, clock, select, stmts>>

\* entity = cls(**data)
ConstructCall(cls, data) ==
    \E r \in {Construct(World, cls, data)} :
        /\ Becomes(r)
        /\ call' = [op |-> "construct", obj |-> Len(heap) + 1, data |-> data,
                    ret |-> r.ret, raised |-> r.raised]

\* entity.update(**data)
UpdateCall(o, data) ==
    \E r \in {Update(World, o, data)} :
        /\ Becomes(r)
        /\ call' = [op |-> "update", obj |-> o, data |-> data,
                    ret |-> r.ret, raised |-> r.raised]

\* entity.id
IdCall(o) ==
    \E r \in {Flexmodel_id(World, o)} :
        /\ Becomes(r)
        /\ call' = [op |-> "id", obj |-> o, ret |-> r.ret, raised |-> r.raised]

\* entity.is_committable()
IsCommittableCall(o) ==
    \E r \in {is_committable(heap, o)} :
        /\ call' = [op |-> "is_committable", obj |-> o,
                    ret |-> IF r = "True" THEN PyTrue ELSE PyFalse,
                    raised |-> IF r = "RecursionError" THEN r ELSE "None"]
        /\ UNCHANGED <<fields, input, heap, store, clock, uuids, select, stmts>>

\* entity.evaluate()
EvaluateCall(o) ==
    \E r \in {Flex_evaluate(heap, o)} :
        /\ call' = [op |-> "evaluate", obj |-> o, ret |-> PyDict(r.messages),
                    raised |-> r.raised]
        /\ UNCHANGED <<fields, input, heap, store, clock, uuids, select, stmts>>

\* entity.to_dict(commit), and so entity.to_json(commit=commit)
ToDictCall(o, commit) ==
    \E r \in {Flex_to_dict(World, o, commit)} :
        /\ Becomes(r)
        /\ call' = [op |-> "to_dict", obj |-> o, commit |-> commit,
                    ret |-> r.ret, raised |-> r.raised]

\* entity.commit(commit_all)
CommitCall(o, commit_all, io) ==
    \E r \in {Flexmodel_commit(World, o, commit_all, clock, io)} :
        /\ Becomes(r)
        /\ call' = [op |-> "commit", obj |-> o, commit_all |-> commit_all,
                    io |-> io, ret |-> r.ret, raised |-> r.raised]

\* entity.delete()
DeleteCall(o, io) ==
    \E r \in {Flexmodel_delete(World, o, io)} :
        /\ Becomes(r)
        /\ call' = [op |-> "delete", obj |-> o, io |-> io,
                    ret |-> r.ret, raised |-> r.raised]

\* cls.load(id)
LoadCall(cls, id, io) ==
    \E r \in {Load(World, cls, id, io)} :
        /\ Becomes(r)
        /\ call' = [op |-> "load", cls |-> cls, id |-> id, io |-> io,
                    ret |-> r.ret, raised |-> r.raised]

\* cls.count()
CountCall(cls, io) ==
    \E r \in {Flexmodel_count(World, cls, io)} :
        /\ Becomes(r)
        /\ call' = [op |-> "count", cls |-> cls, io |-> io,
                    ret |-> r.ret, raised |-> r.raised]

\* time passes
Tick ==
    /\ clock < MaxClock
    /\ clock' = clock + 1
    /\ call' = [op |-> "tick"]
    /\ UNCHANGED <<fields, input, heap, store, uuids, select, stmts>>

\* the ids a caller asks for: those of the documents and of the live entities
KnownIds(cls) ==
    DOMAIN store[cls]
    \cup {Get(heap[o].dict, "_id", None) : o \in {x \in Flexmodels : heap[x].cls = cls}}

IdStep == \E o \in Flexmodels : IdCall(o)

IsCommittableStep == \E o \in Flexmodels : IsCommittableCall(o)

EvaluateEntityStep == \E o \in Objects : EvaluateCall(o)

ToDictStep == \E o \in Objects, commit \in BOOLEAN : ToDictCall(o, commit)

CommitStep ==
    \E o \in Flexmodels, commit_all \in BOOLEAN, io \in IoStates :
        CommitCall(o, commit_all, io)

DeleteStep == \E o \in Flexmodels, io \in IoStates : DeleteCall(o, io)

LoadStep ==
    \E cls \in StoredClasses, io \in IoStates :
        \E id \in KnownIds(cls) : LoadCall(cls, id, io)

CountStep == \E cls \in StoredClasses, io \in IoStates : CountCall(cls, io)

(***************************************************************************)
(* EntitySpec: entities in memory.  A caller passes any keyword arguments  *)
(* (at most MaxKeys of them) to the constructor and to update, and         *)
(* validates and serializes the entities; nothing is stored.               *)
(***************************************************************************)
\* the arguments a caller passes for a key of update(**data)
KeyValues(cls, key) ==
    IF key = "_id" THEN {PyStr(<<"k">>)}
    ELSE IF key = "_updated_at" THEN {PyStr(<<"a">>)}
    ELSE IF key \in {"name", "label", "city", "nickname"} THEN {None, PyStr(<<"a">>)}
    ELSE \* child: nothing, an entity or a nested record
         {None, PyDict([x \in {"label"} |-> PyStr(<<"a">>)])}
         \cup {PyObj(heap[i].cls, i) : i \in 1..Len(heap)}

\* the keys a caller passes to an entity of a class: its fields, and one that
\* is no field of its schema
Keys(cls) == (DOMAIN Schema(cls) \ {"_updated_at"}) \cup {"nickname"}

\* the keyword arguments **data: at most MaxKeys keys
DataInputs(cls) ==
    {data \in UNION {[keys -> UNION {KeyValues(cls, key) : key \in keys}] :
                      keys \in {ks \in SUBSET Keys(cls) : Cardinality(ks) <= MaxKeys}} :
        \A key \in DOMAIN data : data[key] \in KeyValues(cls, key)}

\* the classes of the entities in memory
EntityClasses == {"Address", "Child", "Parent"}

ConstructStep ==
    \E cls \in EntityClasses : \E data \in DataInputs(cls) : ConstructCall(cls, data)

UpdateStep ==
    \E o \in Objects : \E data \in DataInputs(heap[o].cls) : UpdateCall(o, data)

EntityNext ==
    \/ ConstructStep
    \/ UpdateStep
    \/ IsCommittableStep
    \/ EvaluateEntityStep
    \/ ToDictStep

EntitySpec == Init /\ [][EntityNext]_vars

(***************************************************************************)
(* Spec: the life of Parent and Child entities in the store.  A caller     *)
(* names an entity, labels it and nests a Child in a Parent, then commits, *)
(* loads, counts and deletes, with the store up or down.                   *)
(***************************************************************************)
StoredInputs(cls) ==
    IF cls = "Parent"
    THEN {NoEntries, [x \in {"name"} |-> PyStr(<<"a">>)],
          [x \in {"name"} |-> PyStr(<<"b">>)]}
         \cup {[x \in {"child"} |-> PyObj("Child", o)] :
                 o \in {i \in Objects : heap[i].cls = "Child"}}
    ELSE {NoEntries, [x \in {"label"} |-> PyStr(<<"a">>)]}

CreateStep ==
    \E cls \in StoredClasses : \E data \in StoredInputs(cls) :
        ConstructCall(cls, data)

ModifyStep ==
    \E o \in Flexmodels : \E data \in StoredInputs(heap[o].cls) : UpdateCall(o, data)

Next ==
    \/ CreateStep
    \/ ModifyStep
    \/ IsCommittableStep
    \/ CommitStep
    \/ DeleteStep
    \/ LoadStep
    \/ CountStep

Spec == Init /\ [][Next]_vars

(***************************************************************************)
(* IdentitySpec: the identity of the entities of one class.                *)
(* A caller constructs Parents, with or without an explicit _id, updates,  *)
(* reads ids, validates, serializes, commits, deletes and loads.           *)
(***************************************************************************)
Named(data) == Put(data, "name", PyStr(<<"a">>))

IdentityInputs ==
    {NoEntries}
    \cup {[x \in {"_id"} |-> id] : id \in {DefaultId("Parent"), PyStr(<<"k">>)}}

IdentityConstructStep ==
    \E data \in IdentityInputs : ConstructCall("Parent", Named(data))

IdentityUpdateStep ==
    \E o \in Flexmodels : \E data \in IdentityInputs : UpdateCall(o, data)

IdentityNext ==
    \/ IdentityConstructStep
    \/ IdentityUpdateStep
    \/ IdStep
    \/ IsCommittableStep
    \/ EvaluateEntityStep
    \/ ToDictStep
    \/ CommitStep
    \/ DeleteStep
    \/ LoadStep

IdentitySpec == Init /\ [][IdentityNext]_vars

(***************************************************************************)
(* ClockSpec: the timestamp of Parents while time passes.  A caller        *)
(* constructs them, named or not, updates, reads ids, validates,           *)
(* serializes, commits, deletes and loads.                                 *)
(***************************************************************************)
ClockInputs == {NoEntries, Named(NoEntries)}

ClockConstructStep == \E data \in ClockInputs : ConstructCall("Parent", data)

ClockUpdateStep == \E o \in Flexmodels : \E data \in ClockInputs : UpdateCall(o, data)

ClockNext ==
    \/ ClockConstructStep
    \/ ClockUpdateStep
    \/ IdStep
    \/ IsCommittableStep
    \/ EvaluateEntityStep
    \/ ToDictStep
    \/ CommitStep
    \/ DeleteStep
    \/ LoadStep
    \/ Tick

ClockSpec == Init /\ [][ClockNext]_vars

(***************************************************************************)
(* Claims about entities in memory, under EntitySpec.                      *)
(***************************************************************************)
\* C4: for every entity, is_committable() is true exactly when evaluate()
\* returns the empty map (neither traversal running into a cycle), also when a
\* field holds an entity of another type than the field declares.
C4_GateAgreesWithEvaluate ==
    (call.op = "is_committable" /\ call.raised = "None"
        /\ Flex_evaluate(heap, call.obj).raised = "None")
    => ((call.ret = PyTrue) <=> (DOMAIN Flex_evaluate(heap, call.obj).messages = {}))

\* the value update(**data) resolves for a field: the argument, else the value
\* the entity holds, else the schema's default
Resolved(cls, before, data, name) ==
    Get(data, name, Get(before, name, Schema(cls)[name].default))

\* the entity's attributes before the call that call' records (none before its
\* construction)
Before(o) == IF o \in DOMAIN heap THEN heap[o].dict ELSE NoEntries

\* a dict given for a field that declares an entity type is coerced
Coerced(cls, name, value) ==
    Schema(cls)[name].type \in FlexClasses /\ value.k = "dict"

\* the _id of an identity entity that update resolves to the schema's default
\* without the caller passing it
DefaultedId(cls, data, name, value) ==
    /\ cls \in FlexmodelClasses
    /\ name = "_id"
    /\ "_id" \notin DOMAIN data
    /\ value = DefaultId(cls)

\* C10 (as stated): after cls(**data) or update(**data) every schema field,
\* coercion aside, holds the argument, else the value before the call, else the
\* schema's default, and the entity holds nothing but its schema's fields.
C10_UpdateResolves ==
    [][call'.op \in {"construct", "update"} /\ call'.raised = "None"
        => LET o == call'.obj
               cls == heap'[o].cls
           IN  /\ DOMAIN heap'[o].dict = DOMAIN Schema(cls)
               /\ \A name \in DOMAIN Schema(cls) :
                    LET value == Resolved(cls, Before(o), call'.data, name)
                    IN  ~Coerced(cls, name, value)
                        => heap'[o].dict[name] = value]_vars

\* C10 (amended): the same, except that an _id that would be the schema's
\* default, not passed by the caller, is replaced by a newly generated id.
C10_UpdateResolvesButDefaultId ==
    [][call'.op \in {"construct", "update"} /\ call'.raised = "None"
        => LET o == call'.obj
               cls == heap'[o].cls
           IN  /\ DOMAIN heap'[o].dict = DOMAIN Schema(cls)
               /\ \A name \in DOMAIN Schema(cls) :
                    LET value == Resolved(cls, Before(o), call'.data, name)
                    IN  IF DefaultedId(cls, call'.data, name, value)
                        THEN heap'[o].dict[name] = Uuid(uuids')
                             /\ uuids' > uuids
                        ELSE ~Coerced(cls, name, value)
                             => heap'[o].dict[name] = value]_vars

\* an update that passes a null name to a Parent holding a child: the name is
\* null, the child is kept, and the key that is no field is not stored
C10_Witness ==
    /\ call.op = "update"
    /\ call.data = [x \in {"name"} |-> None]
    /\ heap[call.obj].cls = "Parent"
    /\ heap[call.obj].dict["name"] = None
    /\ heap[call.obj].dict["child"].k = "Child"
    /\ heap[call.obj].dict["_id"].s = <<"uuid">>

(***************************************************************************)
(* Claims about the store, under Spec.                                     *)
(***************************************************************************)
\* the world after the step
WorldAfter == [heap |-> heap', store |-> store', uuids |-> uuids']

\* the _id an entity holds
IdOf(heap_, o) == Get(heap_[o].dict, "_id", None)

\* C5: commit() on an entity that is not committable returns false, writes
\* nothing, commits no nested entity and leaves every entity (its _updated_at
\* too) and the store's documents and their count as they were.
C5_RefusedCommitChangesNothing ==
    [][(call'.op = "commit" /\ is_committable(heap, call'.obj) = "False")
        => /\ call'.ret = PyFalse
           /\ call'.raised = "None"
           /\ heap' = heap
           /\ store' = store
           /\ uuids' = uuids]_vars

\* a Parent with a valid name is refused because its Child has no label, while
\* another document is stored
C5_Witness ==
    /\ call.op = "commit"
    /\ call.ret = PyFalse
    /\ call.io = "up"
    /\ heap[call.obj].cls = "Parent"
    /\ heap[call.obj].dict["name"] # None
    /\ heap[call.obj].dict["child"].k = "Child"
    /\ heap[heap[call.obj].dict["child"].n].dict["label"] = None
    /\ is_committable(heap, call.obj) = "False"
    /\ \E cls \in FlexmodelClasses : DOMAIN store[cls] # {}

\* after commit() returned true: the document under the entity's id is what
\* the entity serializes to, and load(id) gives an entity that serializes to it
CommitStored ==
    (call'.op = "commit" /\ call'.ret = PyTrue)
    => LET o == call'.obj
           cls == heap'[o].cls
           id == IdOf(heap', o)
       IN  /\ id \in DOMAIN store'[cls]
           /\ Flexmodel_count(WorldAfter, cls, "up").ret.n >= 1
           /\ store'[cls][id] = Flex_to_dict(WorldAfter, o, call'.commit_all).ret.d
           /\ \E loaded \in {Flexmodel_load(WorldAfter, cls, id)} :
                /\ loaded.ret.k = cls
                /\ \A name \in DOMAIN Schema(cls) :
                     store'[cls][id][name].k \in {"NoneType", "str"}
                     => loaded.w.heap[loaded.ret.n].dict[name] = store'[cls][id][name]
                /\ Flex_to_dict(loaded.w, loaded.ret.n, call'.commit_all).ret.d
                     = store'[cls][id]

\* committing an entity whose id is stored replaces its document: the ids of
\* its collection, and so the count, are the same
CommitReplaces ==
    (call'.op = "commit" /\ call'.ret = PyTrue
        /\ IdOf(heap, call'.obj) \in DOMAIN store[heap[call'.obj].cls])
    => LET cls == heap[call'.obj].cls
       IN  /\ DOMAIN store'[cls] = DOMAIN store[cls]
           /\ Flexmodel_count(WorldAfter, cls, "up").ret
                = Flexmodel_count(World, cls, "up").ret

\* after delete() returned true the document is gone, load(id) is absent and
\* the count is one less
DeleteRemoves ==
    (call'.op = "delete" /\ call'.ret = PyTrue)
    => LET o == call'.obj
           cls == heap[o].cls
           id == IdOf(heap', o)
       IN  /\ id \in DOMAIN store[cls]
           /\ DOMAIN store'[cls] = DOMAIN store[cls] \ {id}
           /\ Flexmodel_load(WorldAfter, cls, id).ret = None
           /\ Flexmodel_count(WorldAfter, cls, "up").ret.n
                = Flexmodel_count(World, cls, "up").ret.n - 1

\* delete() of an entity whose id is not stored returns false, and the store
\* and the entities are as they were
DeleteOfUnstored ==
    (call'.op = "delete" /\ call'.io = "up"
        /\ IdOf(heap, call'.obj) \notin DOMAIN store[heap[call'.obj].cls])
    => /\ call'.ret = PyFalse
       /\ store' = store
       /\ heap' = heap

\* C6: after commit() returns true, load(id) returns an entity with the field
\* values serialized at commit and the count includes it; committing again
\* replaces the single document and keeps the count; after delete() returns
\* true, load(id) is absent and the count is one less; delete() of an id that
\* is not stored returns false and changes nothing.
C6_StoreLifecycle ==
    [][CommitStored /\ CommitReplaces /\ DeleteRemoves /\ DeleteOfUnstored]_vars

\* a Parent committed again under a new name, while a copy loaded before the
\* change still carries the old one and another Parent's document is stored
C6_Witness ==
    /\ call.op = "commit"
    /\ call.ret = PyTrue
    /\ heap[call.obj].cls = "Parent"
    /\ store["Parent"][IdOf(heap, call.obj)]["name"] = PyStr(<<"b">>)
    /\ \E o \in Objects \ {call.obj} :
         /\ heap[o].cls = "Parent"
         /\ IdOf(heap, o) = IdOf(heap, call.obj)
         /\ heap[o].dict["name"] = PyStr(<<"a">>)

\* C7: when the store raises an I/O failure, commit returns false, load returns
\* None and count returns 0, and nothing is raised to the caller.
C7_StoreFailureIsAbsorbed ==
    (call.op \in {"commit", "load", "count"} /\ call.io = "down")
    => /\ call.raised = "None"
       /\ call.ret = IF call.op = "commit" THEN PyFalse
                     ELSE IF call.op = "load" THEN None
                     ELSE PyInt(0)

(***************************************************************************)
(* Claims about the identity of entities, under IdentitySpec.              *)
(***************************************************************************)
\* the step is an update of entity o that passes the key
Passes(o, key) ==
    call'.op = "update" /\ call'.obj = o /\ key \in DOMAIN call'.data

\* what the step reports about ids: an id read returns the _id the entity
\* then holds, a constructor given an _id stores it, and a loaded entity
\* holds the id it was loaded by
IdsReported ==
    /\ call'.op = "id" => call'.ret = IdOf(heap', call'.obj)
    /\ (call'.op = "construct" /\ "_id" \in DOMAIN call'.data)
         => IdOf(heap', call'.obj) = call'.data["_id"]
    /\ (call'.op = "load" /\ call'.ret # None)
         => IdOf(heap', call'.ret.n) = call'.id

\* C8 (as stated): the _id of an instance, generated or given to the
\* constructor or loaded, is the same after any id read, update() that does
\* not pass _id, evaluate, to_dict, commit or delete.
C8_IdKept ==
    [][/\ IdsReported
       /\ \A o \in Flexmodels :
            ~Passes(o, "_id") => IdOf(heap', o) = IdOf(heap, o)]_vars

\* C8 (amended): the same for every instance whose _id is not the schema's
\* default _id; an _id equal to the default is replaced once, by the next id
\* read, update, commit or delete, and only then.
C8_IdKeptUnlessDefault ==
    [][/\ IdsReported
       /\ \A o \in Flexmodels :
            ~Passes(o, "_id")
            => IF IdOf(heap, o) # DefaultId(heap[o].cls)
               THEN IdOf(heap', o) = IdOf(heap, o)
               ELSE IdOf(heap', o) # IdOf(heap, o)
                    => /\ call'.op \in {"id", "update", "commit", "delete"}
                       /\ call'.obj = o
                       /\ IdOf(heap', o) = Uuid(uuids')]_vars

\* an instance constructed with the explicit id "k" is committed under it
\* while another instance holds a generated id
C8_Witness ==
    /\ call.op = "commit"
    /\ call.ret = PyTrue
    /\ IdOf(heap, call.obj) = PyStr(<<"k">>)
    /\ PyStr(<<"k">>) \in DOMAIN store["Parent"]
    /\ \E o \in Flexmodels : IdOf(heap, o).s = <<"uuid">> /\ IdOf(heap, o) # DefaultId("Parent")

(***************************************************************************)
(* Claims about the timestamp of entities, under ClockSpec.                *)
(***************************************************************************)
UpdatedAt(heap_, o) == Get(heap_[o].dict, "_updated_at", None)

\* C9: _updated_at changes only inside commit (never by an id read, an
\* update() that does not pass it, evaluate, is_committable, to_dict or
\* delete), and a commit that writes a document (it returns true) refreshes
\* it first: the document written carries the time of the commit.
C9_UpdatedAtOnlyInCommit ==
    [][/\ \A o \in Flexmodels :
            (~Passes(o, "_updated_at") /\ UpdatedAt(heap', o) # UpdatedAt(heap, o))
            => call'.op = "commit" /\ call'.obj = o
       /\ (call'.op = "commit" /\ call'.ret = PyTrue)
            => LET o == call'.obj
               IN  /\ UpdatedAt(heap', o) = Timestamp(clock)
                   /\ store'["Parent"][IdOf(heap', o)]["_updated_at"]
                        = Timestamp(clock)]_vars

\* a commit at time 1 of an entity whose copy, loaded from the document of an
\* earlier commit, carries time 0
C9_Witness ==
    /\ call.op = "commit"
    /\ call.ret = PyTrue
    /\ clock = 1
    /\ store["Parent"][IdOf(heap, call.obj)]["_updated_at"] = Timestamp(1)
    /\ \E o \in Flexmodels \ {call.obj} :
         /\ IdOf(heap, o) = IdOf(heap, call.obj)
         /\ UpdatedAt(heap, o) = Timestamp(0)

(***************************************************************************)
(* NestedSpec: entities that hold entities.  The classes Child, Profile    *)
(* and Account are defined, so the instance Profile() of Account's schema  *)
(* exists; a caller constructs Childs, Profiles and Accounts, updates      *)
(* Profiles and Accounts in place, and serializes.  A caller never gives   *)
(* the same instance to two entities.                                      *)
(***************************************************************************)
MaxNested == 4

\* the heap once the classes are defined: Profile(), the default of Account.profile
NestedHeap ==
    Construct([heap |-> <<>>, store |-> [cls \in FlexmodelClasses |-> NoEntries],
               uuids |-> 2], "Profile", NoEntries).w.heap

NestedInit ==
    /\ fields = NoEntries
    /\ input = Field("str", None, 1, "None", NoConstraint)
    /\ heap = NestedHeap
    /\ store = [cls \in FlexmodelClasses |-> NoEntries]
    /\ clock = 0
    /\ uuids = 2
    /\ select = NewSelect
    /\ stmts = <<>>
    /\ call = NoCall

NestedClasses == {"Account", "Child", "Profile"}

Childs == {PyObj("Child", o) : o \in {i \in Objects : heap[i].cls = "Child"}}

NestedInputs(cls) ==
    IF cls = "Child"
    THEN {[x \in {"label"} |-> PyStr(<<"a">>)]}
    ELSE IF cls = "Profile"
    THEN {NoEntries, [x \in {"motto"} |-> PyStr(<<"b">>)]}
         \cup {[x \in {"owner"} |-> child] : child \in Childs}
    ELSE {NoEntries}
         \cup {[x \in {"friends"} |-> PyList(<<child>>)] : child \in Childs}
         \cup {[x \in {"profile"} |-> PyDict([y \in {"owner"} |-> child])] :
                 child \in Childs}

\* the state after an operation that returned or raised r
NestedBecomes(r) ==
    /\ Len(r.w.heap) <= MaxNested
    /\ r.w.uuids <= MaxUuids
    /\ heap' = r.w.heap
    /\ store' = r.w.store
    /\ uuids' = r.w.uuids
    /\ UNCHANGED <<fields, input, clock, select, stmts>>

NestedConstructStep ==
    \E cls \in NestedClasses : \E data \in NestedInputs(cls) :
        \E r \in {Construct(World, cls, data)} :
            /\ NestedBecomes(r)
            /\ call' = [op |-> "construct", obj |-> Len(heap) + 1, data |-> data,
                        ret |-> r.ret, raised |-> r.raised]

\* entity.update(**data); for a Profile that an Account holds this is
\* account.profile.update(**data)
NestedUpdateStep ==
    \E o \in Objects : \E data \in NestedInputs(heap[o].cls) \ {NoEntries} :
        \E r \in {Update(World, o, data)} :
            /\ NestedBecomes(r)
            /\ call' = [op |-> "update", obj |-> o, data |-> data,
                        ret |-> r.ret, raised |-> r.raised]

NestedToDictStep ==
    \E o \in Objects, commit \in BOOLEAN :
        \E r \in {Flex_to_dict(World, o, commit)} :
            /\ NestedBecomes(r)
            /\ call' = [op |-> "to_dict", obj |-> o, commit |-> commit,
                        ret |-> r.ret, raised |-> r.raised]

NestedNext ==
    \/ NestedConstructStep
    \/ NestedUpdateStep
    \/ NestedToDictStep

NestedSpec == NestedInit /\ [][NestedNext]_vars

(***************************************************************************)
(* Claims about entities that hold entities, under NestedSpec.             *)
(***************************************************************************)
Accounts(heap_) == {o \in 1..Len(heap_) : heap_[o].cls = "Account"}

\* what an instance holds in a field: the attributes of the entity it holds
Held(heap_, o, name) ==
    LET value == heap_[o].dict[name]
    IN  IF IsFlex(value) THEN heap_[value.n].dict ELSE value.d

\* C11: each instance owns its field values: when the Profile that one Account
\* holds is updated in place (account.profile.update(...)), the profile of every
\* other Account is what it was, and so is the default of the schema.
C11_InstancesOwnTheirValues ==
    [][\A a \in Accounts(heap) :
         (/\ call'.op = "update"
          /\ heap[a].dict["profile"] = PyObj("Profile", call'.obj))
         => /\ heap'[DefaultProfile] = heap[DefaultProfile]
            /\ \A b \in Accounts(heap) \ {a} :
                 Held(heap', b, "profile") = Held(heap, b, "profile")]_vars

\* a serialized value that holds the fields of an identity entity, at any depth
RECURSIVE Inlined(_)
Inlined(value) ==
    \/ /\ value.k = "dict"
       /\ \/ "_id" \in DOMAIN value.d
          \/ \E x \in DOMAIN value.d : Inlined(value.d[x])
    \/ /\ value.k = "list"
       /\ \E i \in 1..Len(value.s) : Inlined(value.s[i])

\* a serialized value that holds a reference {"$id": id}, at any depth
RECURSIVE Referred(_)
Referred(value) ==
    \/ /\ value.k = "dict"
       /\ \/ "$id" \in DOMAIN value.d
          \/ \E x \in DOMAIN value.d : Referred(value.d[x])
    \/ /\ value.k = "list"
       /\ \E i \in 1..Len(value.s) : Referred(value.s[i])

\* the identity entities an entity reaches through its fields, lists and
\* nested entities (NestedSpec builds no cycle)
RECURSIVE Reaches(_, _)
Reaches(heap_, value) ==
    \/ IsFlexmodel(value)
    \/ /\ IsFlex(value)
       /\ \E name \in DOMAIN heap_[value.n].dict :
            Reaches(heap_, heap_[value.n].dict[name])
    \/ /\ value.k = "list"
       /\ \E i \in 1..Len(value.s) : Reaches(heap_, value.s[i])

\* C12: to_dict(commit=true) writes every identity entity the entity reaches,
\* in a field, in a list or in a nested non-identity entity, as {"$id": id} and
\* inlines none; to_dict(commit=false) inlines every nested entity and writes
\* no reference.
C12_ReferencesWhenCommitting ==
    (call.op = "to_dict" /\ call.raised = "None")
    => \A name \in DOMAIN call.ret.d :
         LET value == heap[call.obj].dict[name]
             written == call.ret.d[name]
         IN  IF call.commit
             THEN /\ ~Inlined(written)
                  /\ Reaches(heap, value) => Referred(written)
             ELSE /\ ~Referred(written)
                  /\ Reaches(heap, value) => Inlined(written)

\* the same, for the fields that do not hold a non-identity entity
C12_ReferencesOutsideNestedEntities ==
    (call.op = "to_dict" /\ call.raised = "None")
    => \A name \in DOMAIN call.ret.d :
         LET value == heap[call.obj].dict[name]
             written == call.ret.d[name]
         IN  (IsFlexmodel(value) \/ ~IsFlex(value))
             => IF call.commit
                THEN /\ ~Inlined(written)
                     /\ Reaches(heap, value) => Referred(written)
                ELSE /\ ~Referred(written)
                     /\ Reaches(heap, value) => Inlined(written)

\* the serialized form of a value, as far as its kind tells: a reference for an
\* identity entity when committing, a dict of the schema's fields for any other
\* entity, a list of as many items for a list, the value itself for a scalar
SerializedAs(heap_, value, commit, written) ==
    IF commit /\ IsFlexmodel(value)
    THEN written = PyDict([x \in {"$id"} |-> heap_[value.n].dict["_id"]])
    ELSE IF IsFlex(value)
    THEN written.k = "dict" /\ DOMAIN written.d = DOMAIN Schema(value.k)
    ELSE IF value.k = "list"
    THEN written.k = "list" /\ Len(written.s) = Len(value.s)
    ELSE written = value

\* C13: for every field that has a callback, to_dict emits callback(serialized
\* value), the callback applied once, in both commit modes and for a scalar, a
\* list, a nested entity and a nested identity entity.
C13_CallbackAppliedOnce ==
    (call.op = "to_dict" /\ call.raised = "None")
    => \A name \in DOMAIN call.ret.d :
         LET field == Schema(heap[call.obj].cls)[name]
             value == heap[call.obj].dict[name]
             written == call.ret.d[name]
         IN  /\ field.callback = "boxed"
                => /\ written.k = "list"
                   /\ Len(written.s) = 1
                   /\ SerializedAs(heap, value, call.commit, written.s[1])
             /\ field.callback = "title"
                => written = ApplyCallback("title", value)

\* the same, for the fields that do not hold an identity entity while committing
C13_CallbackAppliedOnceUnlessReference ==
    (call.op = "to_dict" /\ call.raised = "None")
    => \A name \in DOMAIN call.ret.d :
         LET field == Schema(heap[call.obj].cls)[name]
             value == heap[call.obj].dict[name]
             written == call.ret.d[name]
         IN  ~(call.commit /\ IsFlexmodel(value))
             => /\ field.callback = "boxed"
                   => /\ written.k = "list"
                      /\ Len(written.s) = 1
                      /\ SerializedAs(heap, value, call.commit, written.s[1])
                /\ field.callback = "title"
                   => written = ApplyCallback("title", value)

(***************************************************************************)
(* RoundTripSpec: entities of schemas with scalar fields only, Tag and     *)
(* Child.  A caller constructs and updates them with scalars and nulls,    *)
(* and makes a copy of an entity from its serialization: the entity of the *)
(* same class constructed with the entries of e.to_dict() as arguments.    *)
(***************************************************************************)
ScalarClasses == {"Child", "Tag"}

ScalarValues(cls, key) ==
    IF key = "text" THEN {None, PyStr(<<"a">>), PyStr(<<"A">>)}
    ELSE IF key = "size" THEN {None, PyInt(5)}
    ELSE IF key = "label" THEN {None, PyStr(<<"a">>)}
    ELSE IF key = "_id" THEN {None, DefaultId(cls), PyStr(<<"k">>)}
    ELSE {Timestamp(1)}

\* the keyword arguments: any of the schema's fields, each with one of its values
ScalarInputs(cls) ==
    {data \in UNION {[keys -> UNION {ScalarValues(cls, key) : key \in keys}] :
                      keys \in SUBSET DOMAIN Schema(cls)} :
        \A key \in DOMAIN data : data[key] \in ScalarValues(cls, key)}

ScalarConstructStep ==
    \E cls \in ScalarClasses : \E data \in ScalarInputs(cls) : ConstructCall(cls, data)

ScalarUpdateStep ==
    \E o \in Objects : \E data \in ScalarInputs(heap[o].cls) : UpdateCall(o, data)

\* copy = type(e)(**e.to_dict())
RoundTripCall(o) ==
    \E document \in {Flex_to_dict(World, o, FALSE)} :
        \E r \in {IF document.raised # "None"
                  THEN document
                  ELSE Construct(document.w, heap[o].cls, document.ret.d)} :
            /\ Becomes(r)
            /\ call' = [op |-> "round_trip", obj |-> o, copy |-> Len(heap) + 1,
                        ret |-> r.ret, raised |-> r.raised]

RoundTripStep == \E o \in Objects : RoundTripCall(o)

RoundTripNext ==
    \/ ScalarConstructStep
    \/ ScalarUpdateStep
    \/ RoundTripStep

RoundTripSpec == Init /\ [][RoundTripNext]_vars

(***************************************************************************)
(* Claims about the round trip, under RoundTripSpec.                       *)
(***************************************************************************)
\* C14 (as stated): the entity made from e.to_dict() holds the values e holds,
\* _id and _updated_at included, whatever the callbacks of the fields.
C14_RoundTrip ==
    (call.op = "round_trip" /\ call.raised = "None")
    => heap[call.copy].dict = heap[call.obj].dict

\* the callbacks of the entity's fields leave the values it holds as they are
CallbacksKeep(heap_, o) ==
    \A name \in DOMAIN Schema(heap_[o].cls) :
        LET field == Schema(heap_[o].cls)[name]
        IN  callable(field.callback)
            => ApplyCallback(field.callback, heap_[o].dict[name]) = heap_[o].dict[name]

\* C14 (amended): the same, for the entities whose values the callbacks of
\* their fields leave unchanged.
C14_RoundTripWhenCallbacksKeep ==
    (call.op = "round_trip" /\ call.raised = "None" /\ CallbacksKeep(heap, call.obj))
    => heap[call.copy].dict = heap[call.obj].dict

\* a Tag with a capitalised text and a null size, copied
C14_Witness ==
    /\ call.op = "round_trip"
    /\ call.raised = "None"
    /\ heap[call.obj].cls = "Tag"
    /\ heap[call.obj].dict["text"] = PyStr(<<"A">>)
    /\ heap[call.obj].dict["size"] = None
    /\ heap[call.copy].dict = heap[call.obj].dict

(***************************************************************************)
(* Queries: Flexmodel.Select and Flexmodel.Select.Statement.  A condition  *)
(* is a dict (Dict) from field names and "$and", "$or", "$not" to values,  *)
(* dicts of operators and lists of conditions.                             *)
(***************************************************************************)
\* a function object, as passed to Statement.function
PyFn(name) == [k |-> "function", n |-> 0, s |-> <<name>>, d |-> NoEntries]

\* a str as one token
Token(text) == PyStr(<<text>>)

\* Statement.__init__(name, model, functions): functions is the list of the
\* (func, args) steps
Statement(name, functions) == [name |-> name, functions |-> functions]

\* Select.__getattr__(name) and Select.__getitem__(name), for the Select of a class
Select_getattr(cls, name) ==
    IF name \notin DOMAIN Schema(cls)
    THEN [raised |-> "FlexmodelException", ret |-> Statement("", <<>>)]
    ELSE [raised |-> "None", ret |-> Statement(name, <<>>)]

\* the leaf of a Statement that has function steps
FunctionLeaf(self, operator, value) ==
    Dict(<< <<self.name,
              Dict(<< <<"$__function__",
                        Dict(<< <<"functions", PyList(self.functions)>>,
                                <<"operator", Token(operator)>>,
                                <<"value", value>> >>)>> >>)>> >>)

\* Statement.__eq__, __ne__, __lt__, __gt__, __le__ and __ge__
Statement_compare(self, method, value) ==
    CASE method = "__eq__" ->
           IF self.functions # <<>>
           THEN FunctionLeaf(self, "$eq", value)
           ELSE Dict(<< <<self.name, value>> >>)
      [] method = "__ne__" ->
           IF self.functions # <<>>
           THEN FunctionLeaf(self, "$ne", value)
           ELSE Dict(<< <<self.name, Dict(<< <<"$ne", value>> >>)>> >>)
      [] method = "__lt__" ->
           IF self.functions # <<>>
           THEN FunctionLeaf(self, "$lt", value)
           ELSE Dict(<< <<self.name, Dict(<< <<"$lt", value>> >>)>> >>)
      [] method = "__gt__" ->
           IF self.functions # <<>>
           THEN FunctionLeaf(self, "$gt", value)
           ELSE Dict(<< <<self.name, Dict(<< <<"$gt", value>> >>)>> >>)
      [] method = "__le__" ->
           IF self.functions # <<>>
           THEN FunctionLeaf(self, "$lte", value)
           ELSE Dict(<< <<self.name, Dict(<< <<"$lte", value>> >>)>> >>)
      [] method = "__ge__" ->
           IF self.functions # <<>>
           THEN FunctionLeaf(self, "$gte", value)
           ELSE Dict(<< <<self.name, Dict(<< <<"$gte", value>> >>)>> >>)

\* a faulty function(): the step is appended to the receiver's own list, which
\* the new Statement shares
Statement_function_shared(objects, self, func, args) ==
    LET new_functions == Append(objects[self].functions, PyTuple(<<PyFn(func), PyTuple(args)>>))
    IN  Append([objects EXCEPT ![self].functions = new_functions],
               Statement(objects[self].name, new_functions))

\* Statement.function(func, args) on the Statement objects[self]: the objects
\* after the call, the new Statement last
Statement_function(objects, self, func, args) ==
    LET new_functions == Append(objects[self].functions, PyTuple(<<PyFn(func), PyTuple(args)>>))
    IN  Append(objects, Statement(objects[self].name, new_functions))

(***************************************************************************)
(* StatementSpec: a caller takes Statements from the Select of Parent,     *)
(* chains function steps and compares.                                     *)
(***************************************************************************)
MaxStatements == 3

MaxSteps == 2

Methods == {"__eq__", "__ne__", "__lt__", "__gt__", "__le__", "__ge__"}

\* select.<name> / select[name]
GetAttrStep ==
    \E name \in {"name", "child", "nick"} :
        \E r \in {Select_getattr("Parent", name)} :
            /\ Len(stmts) < MaxStatements
            /\ stmts' = IF r.raised = "None" THEN Append(stmts, r.ret) ELSE stmts
            /\ call' = [op |-> "getattr", name |-> name, raised |-> r.raised]
            /\ UNCHANGED <<fields, input, heap, store, clock, uuids, select>>

\* statement.function(func, args)
FunctionStep ==
    \E self \in 1..Len(stmts), func \in {"discount", "upper"},
       args \in {<<>>, <<PyInt(2)>>} :
        /\ Len(stmts) < MaxStatements
        /\ Len(stmts[self].functions) < MaxSteps
        /\ stmts' = Statement_function(stmts, self, func, args)
        /\ call' = [op |-> "function", self |-> self, func |-> func, args |-> args,
                    ret |-> Len(stmts) + 1]
        /\ UNCHANGED <<fields, input, heap, store, clock, uuids, select>>

\* statement == value, statement != value, ..., statement >= value
CompareStep ==
    \E self \in 1..Len(stmts), method \in Methods, value \in {None, PyInt(5)} :
        /\ call' = [op |-> "compare", self |-> self, method |-> method,
                    value |-> value,
                    ret |-> Statement_compare(stmts[self], method, value)]
        /\ UNCHANGED <<fields, input, heap, store, clock, uuids, select, stmts>>

StatementNext ==
    \/ GetAttrStep
    \/ FunctionStep
    \/ CompareStep

StatementSpec == Init /\ [][StatementNext]_vars

(***************************************************************************)
(* Claims about Statements, under StatementSpec.                           *)
(***************************************************************************)
\* the operator of a comparison, as the contract names it
ComparisonOperator ==
    [__eq__ |-> "$eq", __ne__ |-> "$ne", __lt__ |-> "$lt", __gt__ |-> "$gt",
     __le__ |-> "$lte", __ge__ |-> "$gte"]

\* C15: a comparison on a Statement with no function steps yields {f: v} for ==
\* and {f: {op: v}} for the five others; with function steps each of the six
\* yields {f: {"$__function__": {functions, operator, value}}}, the functions in
\* the order function() was called; function() returns a new Statement whose
\* chain is the receiver's with the step added last, and leaves the receiver
\* (and every other Statement) as it was.
C15_ComparisonLeaves ==
    [][/\ call'.op = "compare"
          => LET self == stmts[call'.self]
                 f == self.name
                 v == call'.value
                 operator == ComparisonOperator[call'.method]
             IN  /\ stmts' = stmts
                 /\ DOMAIN call'.ret.d = {f}
                 /\ IF self.functions = <<>>
                    THEN IF call'.method = "__eq__"
                         THEN call'.ret.d[f] = v
                         ELSE /\ DOMAIN call'.ret.d[f].d = {operator}
                              /\ call'.ret.d[f].d[operator] = v
                    ELSE /\ DOMAIN call'.ret.d[f].d = {"$__function__"}
                         /\ LET info == call'.ret.d[f].d["$__function__"].d
                            IN  /\ DOMAIN info = {"functions", "operator", "value"}
                                /\ info["functions"] = PyList(self.functions)
                                /\ info["operator"] = Token(operator)
                                /\ info["value"] = v
       /\ call'.op = "function"
          => /\ Len(stmts') = Len(stmts) + 1
             /\ \A s \in 1..Len(stmts) : stmts'[s] = stmts[s]
             /\ stmts'[call'.ret].name = stmts[call'.self].name
             /\ stmts'[call'.ret].functions
                  = stmts[call'.self].functions
                    \o <<PyTuple(<<PyFn(call'.func), PyTuple(call'.args)>>)>>]_vars

\* a comparison on a Statement with two function steps, discount(2) then upper()
C15_Witness ==
    /\ call.op = "compare"
    /\ call.method = "__le__"
    /\ stmts[call.self].functions
         = << PyTuple(<<PyFn("discount"), PyTuple(<<PyInt(2)>>)>>),
              PyTuple(<<PyFn("upper"), PyTuple(<<>>)>>) >>
    /\ call.ret.d[stmts[call.self].name].d["$__function__"].d["operator"] = Token("$lte")

(***************************************************************************)
(* Select: the combinators and the statement and sort sets.                *)
(***************************************************************************)
\* dict[key] = value: a new key is inserted last, a known key keeps its place
DictSet(dict, key, value) ==
    [dict EXCEPT
       !.s = IF key \in DOMAIN dict.d THEN @ ELSE Append(@, key),
       !.d = [x \in DOMAIN @ \cup {key} |-> IF x = key THEN value ELSE @[x]]]

\* Select.match(*conditions)
Select_match(conditions) ==
    IF Len(conditions) = 0
    THEN Dict(<<>>)
    ELSE Dict(<< <<"$and", PyList(conditions)>> >>)

\* Select.not_match(*conditions)
Select_not_match(conditions) ==
    IF Len(conditions) = 0
    THEN Dict(<<>>)
    ELSE Dict(<< <<"$not", Dict(<< <<"$and", PyList(conditions)>> >>)>> >>)

\* Select.at_least(*conditions)
Select_at_least(conditions) ==
    IF Len(conditions) = 0
    THEN Dict(<<>>)
    ELSE Dict(<< <<"$or", PyList(conditions)>> >>)

\* Select.not_at_least(*conditions)
Select_not_at_least(conditions) ==
    IF Len(conditions) = 0
    THEN Dict(<<>>)
    ELSE Dict(<< <<"$not", Dict(<< <<"$or", PyList(conditions)>> >>)>> >>)

\* for logical, value in condition.items(): target[logical] = value, for every
\* condition from the i-th on
RECURSIVE MergeFrom(_, _, _, _)
MergeFrom(target, conditions, i, j) ==
    IF i > Len(conditions)
    THEN target
    ELSE IF j > Len(conditions[i].s)
    THEN MergeFrom(target, conditions, i + 1, 1)
    ELSE MergeFrom(DictSet(target, conditions[i].s[j],
                           conditions[i].d[conditions[i].s[j]]),
                   conditions, i, j + 1)

\* a faulty where: a key that is set already is AND-combined with the new value
RECURSIVE AndFrom(_, _, _, _)
AndFrom(target, conditions, i, j) ==
    IF i > Len(conditions)
    THEN target
    ELSE IF j > Len(conditions[i].s)
    THEN AndFrom(target, conditions, i + 1, 1)
    ELSE LET key == conditions[i].s[j]
             value == conditions[i].d[key]
         IN  AndFrom(IF key \in DOMAIN target.d
                     THEN DictSet(target, key,
                                  Dict(<< <<"$and", PyList(<<target.d[key], value>>)>> >>))
                     ELSE DictSet(target, key, value),
                     conditions, i, j + 1)

Select_where_combining(self, conditions) ==
    [self EXCEPT !.statements = AndFrom(@, conditions, 1, 1)]

\* Select.where(*conditions)
Select_where(self, conditions) ==
    [self EXCEPT !.statements = MergeFrom(@, conditions, 1, 1)]

\* Select.sort(*conditions)
Select_sort(self, conditions) ==
    IF Len(conditions) = 0
    THEN self
    ELSE [self EXCEPT !.sorts = MergeFrom(@, conditions, 1, 1)]

\* Select.discard()
Select_discard(self) == [self EXCEPT !.sorts = Dict(<<>>), !.statements = Dict(<<>>)]

(***************************************************************************)
(* The store's filter semantics (MongoDB): a document matches a condition  *)
(* when it matches every key of it; {} matches every document.             *)
(***************************************************************************)
\* a value of a document against the operators of a field
MatchesOperators(value, operators) ==
    \A op \in DOMAIN operators.d :
        LET operand == operators.d[op]
        IN  CASE op = "$eq" -> value = operand
              [] op = "$ne" -> value # operand
              [] op = "$lt" -> value.k = operand.k /\ value.n < operand.n
              [] op = "$gt" -> value.k = operand.k /\ value.n > operand.n
              [] op = "$lte" -> value.k = operand.k /\ value.n <= operand.n
              [] op = "$gte" -> value.k = operand.k /\ value.n >= operand.n
              [] op = "$in" -> \E i \in 1..Len(operand.s) : operand.s[i] = value
              [] op = "$nin" -> \A i \in 1..Len(operand.s) : operand.s[i] # value
              [] OTHER -> TRUE

RECURSIVE Matches(_, _)
Matches(document, condition) ==
    \A key \in DOMAIN condition.d :
        LET value == condition.d[key]
        IN  CASE key = "$and" -> \A i \in 1..Len(value.s) : Matches(document, value.s[i])
              [] key = "$or" -> \E i \in 1..Len(value.s) : Matches(document, value.s[i])
              [] key = "$not" -> ~Matches(document, value)
              [] OTHER ->
                   IF value.k = "dict"
                   THEN MatchesOperators(Get(document, key, None), value)
                   ELSE Get(document, key, None) = value

(***************************************************************************)
(* SelectSpec: a caller combines conditions with match, at_least and their *)
(* negations, and passes conditions to where and sort, or discards.        *)
(***************************************************************************)
MaxConditions == 2

\* the leaves a caller makes from the Statements of the fields name and rank
Leaves ==
    {Statement_compare(Statement("name", <<>>), "__eq__", Token("a")),
     Statement_compare(Statement("name", <<>>), "__ne__", Token("a")),
     Statement_compare(Statement("rank", <<>>), "__gt__", PyInt(1))}

\* the conditions a caller passes on: leaves, and the results of combinators
Conditions ==
    Leaves
    \cup {Select_match(<<>>)}
    \cup {Select_match(<<Statement_compare(Statement("name", <<>>), "__eq__", Token("a"))>>)}

\* statement.asc() and statement.desc()
Directions == {Dict(<< <<"name", PyInt(1)>> >>), Dict(<< <<"name", PyInt(-1)>> >>)}

\* select.match(...), select.at_least(...), select.not_match(...),
\* select.not_at_least(...)
CombineStep ==
    \E method \in {"match", "at_least", "not_match", "not_at_least"} :
      \E conditions \in SeqsUpTo(Leaves \cup {Dict(<<>>)}, MaxConditions) :
        /\ call' = [op |-> method, conditions |-> conditions,
                    ret |-> CASE method = "match" -> Select_match(conditions)
                              [] method = "at_least" -> Select_at_least(conditions)
                              [] method = "not_match" -> Select_not_match(conditions)
                              [] OTHER -> Select_not_at_least(conditions)]
        /\ UNCHANGED <<fields, input, heap, store, clock, uuids, select, stmts>>

\* select.where(*conditions)
WhereStep ==
    \E conditions \in SeqsUpTo(Conditions, MaxConditions) :
        /\ select' = Select_where(select, conditions)
        /\ call' = [op |-> "where", conditions |-> conditions]
        /\ UNCHANGED <<fields, input, heap, store, clock, uuids, stmts>>

\* select.sort(*conditions)
SortStep ==
    \E conditions \in SeqsUpTo(Directions, MaxConditions) :
        /\ select' = Select_sort(select, conditions)
        /\ call' = [op |-> "sort", conditions |-> conditions]
        /\ UNCHANGED <<fields, input, heap, store, clock, uuids, stmts>>

\* select.discard()
DiscardStep ==
    /\ select' = Select_discard(select)
    /\ call' = [op |-> "discard"]
    /\ UNCHANGED <<fields, input, heap, store, clock, uuids, stmts>>

SelectNext ==
    \/ CombineStep
    \/ WhereStep
    \/ SortStep
    \/ DiscardStep

SelectSpec == Init /\ [][SelectNext]_vars

(***************************************************************************)
(* Claims about Select, under SelectSpec.                                  *)
(***************************************************************************)
\* the records of a collection with the fields name and rank
Records ==
    {[x \in {"name", "rank"} |-> IF x = "name" THEN name ELSE rank] :
        name \in {Token("a"), Token("b")}, rank \in {PyInt(1), PyInt(2)}}

\* C16: match() and at_least() with no argument return an empty node, and the
\* empty node is neutral for its combinator: match(x, match()) and
\* at_least(x, at_least()) select the records that the leaf x selects.
C16_EmptyNodeIsNeutral ==
    call.op \in {"match", "at_least"}
    => /\ call.conditions = <<>> => DOMAIN call.ret.d = {}
       /\ (/\ Len(call.conditions) = 2
           /\ call.conditions[1] \in Leaves
           /\ call.conditions[2] = Dict(<<>>))
          => \A record \in Records :
               Matches(record, call.ret) <=> Matches(record, call.conditions[1])

\* the same for match alone
C16_EmptyNodeIsNeutralForMatch ==
    call.op = "match"
    => /\ call.conditions = <<>> => DOMAIN call.ret.d = {}
       /\ (/\ Len(call.conditions) = 2
           /\ call.conditions[1] \in Leaves
           /\ call.conditions[2] = Dict(<<>>))
          => \A record \in Records :
               Matches(record, call.ret) <=> Matches(record, call.conditions[1])

\* the last-write-wins merge of conditions into a set: a key that a condition
\* passes gets the value of the last condition that passes it, every other key
\* keeps its value
MergedInto(before, after, conditions) ==
    LET passing(key) == {i \in 1..Len(conditions) : key \in DOMAIN conditions[i].d}
        last(key) == CHOOSE i \in passing(key) : \A j \in passing(key) : j <= i
    IN  /\ DOMAIN after.d
             = DOMAIN before.d \cup UNION {DOMAIN conditions[i].d : i \in 1..Len(conditions)}
        /\ \A key \in DOMAIN after.d :
             after.d[key] = IF passing(key) # {}
                            THEN conditions[last(key)].d[key]
                            ELSE before.d[key]

\* C17: where merges the conditions passed into the statement set, last write
\* wins per top-level key (a later value replaces the earlier one and is never
\* AND-combined with it, the other keys keep their value) and leaves the sort
\* set alone; sort does the same to the sort set; after discard both are empty.
C17_LastWriteWins ==
    [][/\ call'.op = "where"
          => /\ MergedInto(select.statements, select'.statements, call'.conditions)
             /\ select'.sorts = select.sorts
       /\ call'.op = "sort"
          => /\ MergedInto(select.sorts, select'.sorts, call'.conditions)
             /\ select'.statements = select.statements
       /\ call'.op = "discard"
          => /\ DOMAIN select'.statements.d = {}
             /\ DOMAIN select'.sorts.d = {}]_vars

\* where(name != "a", name == "a") on a Select that held name == "a" and a rank
C17_Witness ==
    /\ call.op = "where"
    /\ Len(call.conditions) = 2
    /\ "name" \in DOMAIN call.conditions[1].d
    /\ "name" \in DOMAIN call.conditions[2].d
    /\ call.conditions[1].d["name"] # call.conditions[2].d["name"]
    /\ select.statements.d["name"] = Token("a")
    /\ "rank" \in DOMAIN select.statements.d
    /\ DOMAIN select.sorts.d # {}

(***************************************************************************)
(* Select.to_sql.  A text is the sequence of its words: a str value is the *)
(* words of its text, a quote "'" among them where the text has one.       *)
(***************************************************************************)
\* the least of two numbers
Min(a, b) == IF a < b THEN a ELSE b

\* str(value), as an f-string formats it
Text(value) ==
    IF value.k = "NoneType" THEN <<"None">> ELSE TextOf(value)

\* json.dumps(value) of a scalar
json_dumps(value) ==
    IF value.k = "str" THEN <<"\"">> \o value.s \o <<"\"">>
    ELSE IF value.k = "NoneType" THEN <<"null">>
    ELSE TextOf(value)

\* separator.join(texts)
RECURSIVE Join(_, _)
Join(texts, separator) ==
    IF texts = <<>> THEN <<>>
    ELSE IF Len(texts) = 1 THEN texts[1]
    ELSE texts[1] \o <<separator>> \o Join(Tail(texts), separator)

\* the clauses of the operators of a field, in the order of the dict
RECURSIVE parse_condition(_)
RECURSIVE OperatorClauses(_, _, _)
OperatorClauses(key, operators, i) ==
    IF i > Len(operators.s)
    THEN <<>>
    ELSE
      LET op == operators.s[i]
          val == operators.d[op]
          quoted(sign) == <<key, sign, "'">> \o Text(val) \o <<"'">>
          listed == Join([x \in 1..Len(val.s) |-> json_dumps(val.s[x])], ",")
          clause ==
            CASE op = "$ne" -> << quoted("!=") >>
              [] op = "$lt" -> << quoted("<") >>
              [] op = "$gt" -> << quoted(">") >>
              [] op = "$lte" -> << quoted("<=") >>
              [] op = "$gte" -> << quoted(">=") >>
              [] op = "$in" -> << <<key, "IN", "(">> \o listed \o <<")">> >>
              [] op = "$nin" -> << <<key, "NOT", "IN", "(">> \o listed \o <<")">> >>
              [] op = "$regex" -> << quoted("REGEXP") >>
              [] op = "$not" ->
                   << <<"NOT", "(">> \o parse_condition(Dict(<< <<key, val>> >>))
                      \o <<")">> >>
              [] OTHER -> <<>>
      IN  clause \o OperatorClauses(key, operators, i + 1)

\* the clauses of a condition, key by key in the order of the dict
RECURSIVE Clauses(_, _)
Clauses(condition, i) ==
    IF i > Len(condition.s)
    THEN <<>>
    ELSE
      LET key == condition.s[i]
          value == condition.d[key]
          items(separator) ==
            Join([x \in 1..Len(value.s) |-> parse_condition(value.s[x])], separator)
          clauses ==
            CASE key = "$and" -> << <<"(">> \o items("AND") \o <<")">> >>
              [] key = "$or" -> << <<"(">> \o items("OR") \o <<")">> >>
              [] key = "$not" -> << <<"NOT", "(">> \o parse_condition(value) \o <<")">> >>
              [] OTHER ->
                   IF value.k = "dict"
                   THEN OperatorClauses(key, value, 1)
                   ELSE << <<key, "=", "'">> \o Text(value) \o <<"'">> >>
      IN  clauses \o Clauses(condition, i + 1)

\* parse_condition(condition) of to_sql
parse_condition(condition) == Join(Clauses(condition, 1), "AND")

\* Flexmodel.collection_name
collection_name == "collections"

\* a faulty to_sql: the condition is compiled without the parentheses of $and / $or
to_sql_flat(self) ==
    LET flat(tokens) == SelectSeq(tokens, LAMBDA x : x \notin {"(", ")"})
    IN  IF Len(self.statements.s) = 0
        THEN <<"SELECT", "*", "FROM", collection_name>>
        ELSE <<"SELECT", "*", "FROM", collection_name, "WHERE">>
             \o flat(parse_condition(self.statements))

\* the property Select.to_sql
to_sql(self) ==
    IF Len(self.statements.s) = 0
    THEN <<"SELECT", "*", "FROM", collection_name>>
    ELSE <<"SELECT", "*", "FROM", collection_name, "WHERE">>
         \o parse_condition(self.statements)

(***************************************************************************)
(* Select._extract_function_filters(conditions): the conditions without    *)
(* the function leaves, and the function filters (key, function info).     *)
(***************************************************************************)
RECURSIVE process_condition(_, _, _, _)
RECURSIVE process_items(_, _, _, _)

\* [process_condition(item) for item in value], from the i-th item on, adding
\* to the function filters found so far
process_items(items, i, processed, function_filters) ==
    IF i > Len(items)
    THEN [result |-> PyList(processed), function_filters |-> function_filters]
    ELSE Bind(process_condition(items[i], 1, Dict(<<>>), function_filters),
              LAMBDA item :
                process_items(items, i + 1, Append(processed, item.result),
                              item.function_filters))

\* a faulty process_condition: the lists of $and and $or are kept as they are
process_condition_flat(cond, i, result, function_filters) ==
    IF i > Len(cond.s)
    THEN [result |-> result, function_filters |-> function_filters]
    ELSE
      LET key == cond.s[i]
          value == cond.d[key]
      IN  IF key \in {"$and", "$or", "$not"}
          THEN process_condition(cond, i + 1, DictSet(result, key, value),
                                 function_filters)
          ELSE IF value.k = "dict" /\ "$__function__" \in DOMAIN value.d
          THEN process_condition(
                 cond, i + 1, result,
                 Append(function_filters,
                        PyTuple(<<Token(key), value.d["$__function__"]>>)))
          ELSE process_condition(cond, i + 1, DictSet(result, key, value),
                                 function_filters)

\* the loop of process_condition(cond) over the keys, from the i-th on
process_condition(cond, i, result, function_filters) ==
    IF i > Len(cond.s)
    THEN [result |-> result, function_filters |-> function_filters]
    ELSE
      LET key == cond.s[i]
          value == cond.d[key]
      IN  IF key \in {"$and", "$or", "$not"}
          THEN Bind(IF value.k = "list"
                    THEN process_items(value.s, 1, <<>>, function_filters)
                    ELSE IF value.k = "dict"
                    THEN process_condition(value, 1, Dict(<<>>), function_filters)
                    ELSE [result |-> value, function_filters |-> function_filters],
                    LAMBDA processed :
                      process_condition(cond, i + 1,
                                        DictSet(result, key, processed.result),
                                        processed.function_filters))
          ELSE IF value.k = "dict" /\ "$__function__" \in DOMAIN value.d
          THEN process_condition(
                 cond, i + 1, result,
                 Append(function_filters,
                        PyTuple(<<Token(key), value.d["$__function__"]>>)))
          ELSE process_condition(cond, i + 1, DictSet(result, key, value),
                                 function_filters)

\* a faulty split: only the first function filter is kept
extract_function_filters_first(conditions) ==
    LET processed == process_condition(conditions, 1, Dict(<<>>), <<>>)
    IN  <<processed.result,
          SubSeq(processed.function_filters, 1, Min(1, Len(processed.function_filters)))>>

\* Select._extract_function_filters(conditions): (mongodb_conditions, function_filters)
extract_function_filters(conditions) ==
    LET processed == process_condition(conditions, 1, Dict(<<>>), <<>>)
    IN  <<processed.result, processed.function_filters>>

(***************************************************************************)
(* CompileSpec: a caller narrows a Select with the conditions of a query   *)
(* and compiles it: to_sql, and the split of the function filters.         *)
(***************************************************************************)
\* the statements a where() may hold before another where() is made
MaxWheres == 2

\* Statement.is_in(items=items)
Statement_is_in(self, items) ==
    Dict(<< <<self.name, Dict(<< <<"$in", PyList(items)>> >>)>> >>)

\* Statement.is_between(start=start, end=end)
Statement_is_between(self, start, end) ==
    Dict(<< <<self.name, Dict(<< <<"$gte", start>>, <<"$lte", end>> >>)>> >>)

\* Statement.is_not_between(start=start, end=end)
Statement_is_not_between(self, start, end) ==
    Dict(<< <<self.name, Dict(<< <<"$lt", start>>, <<"$gt", end>> >>)>> >>)

\* Statement.match(pattern), with the default options
Statement_match(self, pattern) ==
    Dict(<< <<self.name,
              Dict(<< <<"$regex", pattern>>, <<"$options", Token("i")>> >>)>> >>)

\* Statement.not_match(pattern), with the default options
Statement_not_match(self, pattern) ==
    Dict(<< <<self.name, Dict(<< <<"$not", Statement_match(self, pattern).d[self.name]>> >>)>> >>)

\* Statement.is_null()
Statement_is_null(self) ==
    Dict(<< <<self.name, Dict(<< <<"$eq", None>> >>)>> >>)

\* a str whose text has single quotes: a' OR name != 'a
Quoted == PyStr(<<"a", "'", "OR", "name", "!=", "'", "a">>)

\* select.name and select.rank
NameStatement == Statement("name", <<>>)

RankStatement == Statement("rank", <<>>)

\* select.rank.function(discount) > 1 and select.name.function(upper) == "a"
RankFunctionLeaf ==
    Statement_compare(
        Statement("rank", <<PyTuple(<<PyFn("discount"), PyTuple(<<>>)>>)>>),
        "__gt__", PyInt(1))

NameFunctionLeaf ==
    Statement_compare(
        Statement("name", <<PyTuple(<<PyFn("upper"), PyTuple(<<>>)>>)>>),
        "__eq__", Token("a"))

\* the conditions of the queries: leaves of every kind, and combinations of them
Trees ==
    LET eq == Statement_compare(NameStatement, "__eq__", Token("a"))
        ne == Statement_compare(NameStatement, "__ne__", Token("a"))
        gt == Statement_compare(RankStatement, "__gt__", PyInt(1))
        in == Statement_is_in(RankStatement, <<PyInt(1), PyInt(2)>>)
        between == Statement_is_between(RankStatement, PyInt(1), PyInt(2))
        like == Statement_match(NameStatement, Token("a"))
        unlike == Statement_not_match(NameStatement, Token("a"))
        quoted == Statement_compare(NameStatement, "__eq__", Quoted)
        null == Statement_is_null(NameStatement)
    IN  {eq, ne, gt, in, between, like, unlike, quoted, null,
         RankFunctionLeaf, NameFunctionLeaf,
         Select_match(<<eq, gt>>),
         Select_at_least(<<eq, gt>>),
         Select_at_least(<<ne, between>>),
         Select_at_least(<<like, in>>),
         Select_not_match(<<eq, gt>>),
         Select_not_at_least(<<ne, gt>>),
         Select_match(<<Select_at_least(<<eq, gt>>), ne>>),
         Select_at_least(<<Select_match(<<eq, gt>>), ne>>),
         Select_match(<<quoted, gt>>),
         Select_match(<<RankFunctionLeaf, eq>>),
         Select_at_least(<<eq, RankFunctionLeaf>>),
         Select_not_match(<<RankFunctionLeaf>>),
         Select_match(<<Select_at_least(<<RankFunctionLeaf, eq>>), NameFunctionLeaf>>)}

\* select.where(condition)
CompileWhereStep ==
    /\ Len(select.statements.s) < MaxWheres
    /\ \E condition \in Trees :
        /\ select' = Select_where(select, <<condition>>)
        /\ call' = [op |-> "where"]
    /\ UNCHANGED <<fields, input, heap, store, clock, uuids, stmts>>

\* select.to_sql
ToSqlStep ==
    /\ call' = [op |-> "to_sql", ret |-> to_sql(select)]
    /\ UNCHANGED <<fields, input, heap, store, clock, uuids, select, stmts>>

\* select._extract_function_filters(select.statements)
ExtractStep ==
    /\ call' = [op |-> "_extract_function_filters",
                conditions |-> select.statements,
                ret |-> extract_function_filters(select.statements)]
    /\ UNCHANGED <<fields, input, heap, store, clock, uuids, select, stmts>>

CompileNext ==
    \/ CompileWhereStep
    \/ ToSqlStep
    \/ ExtractStep

CompileSpec == Init /\ [][CompileNext]_vars

(***************************************************************************)
(* Claims about the compilers, under CompileSpec.                          *)
(***************************************************************************)
\* the fields of the leaves of a condition, at any depth
RECURSIVE LeafFields(_)
LeafFields(condition) ==
    UNION {LET value == condition.d[key]
           IN  IF key \in {"$and", "$or"}
               THEN UNION {LeafFields(value.s[i]) : i \in 1..Len(value.s)}
               ELSE IF key = "$not" THEN LeafFields(value)
               ELSE {key} : key \in DOMAIN condition.d}

\* the text of to_sql after its WHERE
WhereClause(sql) == SubSeq(sql, 6, Len(sql))

\* C18: the SQL compiler never silently drops a condition: with statements that
\* are not empty, the WHERE clause of to_sql is not empty and every leaf has
\* its part in it (a leaf that cannot be translated, an explanatory comment).
C18_NoConditionDropped ==
    (call.op = "to_sql" /\ Len(select.statements.s) > 0)
    => /\ Len(call.ret) > 5
       /\ WhereClause(call.ret) # <<>>
       /\ \A key \in LeafFields(select.statements) :
              \E i \in 1..Len(WhereClause(call.ret)) : WhereClause(call.ret)[i] = key

(***************************************************************************)
(* Reading a WHERE clause with the precedence of SQL: NOT over AND over    *)
(* OR.  A comparison is read up to the quote that closes its literal, a    *)
(* list up to its closing parenthesis; truths is the set of the            *)
(* comparisons that hold of a record.                                      *)
(***************************************************************************)
Unread == [ok |-> FALSE, val |-> FALSE, rest |-> <<>>]

\* the first position from i on where the word is, 0 when there is none
First(words, word, i) ==
    LET found == {j \in i..Len(words) : words[j] = word}
    IN  IF found = {} THEN 0 ELSE CHOOSE j \in found : \A x \in found : j <= x

\* one comparison at the head of the words
SqlComparison(words, truths) ==
    LET end ==
          IF Len(words) < 4 \/ words[1] \in {"(", ")", "'", "AND", "OR", "NOT", "IN"}
          THEN 0
          ELSE IF words[2] \in {"=", "!=", "<", ">", "<=", ">=", "REGEXP"} /\ words[3] = "'"
          THEN First(words, "'", 4)
          ELSE IF words[2] = "IN" /\ words[3] = "("
          THEN First(words, ")", 4)
          ELSE IF words[2] = "NOT" /\ words[3] = "IN" /\ words[4] = "("
          THEN First(words, ")", 5)
          ELSE 0
    IN  IF end = 0
        THEN Unread
        ELSE [ok |-> TRUE, val |-> SubSeq(words, 1, end) \in truths,
              rest |-> SubSeq(words, end + 1, Len(words))]

RECURSIVE SqlFactor(_, _)
RECURSIVE SqlTerm(_, _, _)
RECURSIVE SqlExpression(_, _, _)

\* factor: NOT factor, ( expression ), or a comparison
SqlFactor(words, truths) ==
    IF words = <<>>
    THEN Unread
    ELSE IF Head(words) = "NOT"
    THEN Bind(SqlFactor(Tail(words), truths),
              LAMBDA f : IF f.ok THEN [f EXCEPT !.val = ~f.val] ELSE Unread)
    ELSE IF Head(words) = "("
    THEN Bind(Bind(SqlFactor(Tail(words), truths),
                   LAMBDA f : IF f.ok THEN SqlTerm(f.val, f.rest, truths) ELSE Unread),
              LAMBDA t :
                Bind(IF t.ok THEN SqlExpression(t.val, t.rest, truths) ELSE Unread,
                     LAMBDA e :
                       IF e.ok /\ e.rest # <<>> /\ Head(e.rest) = ")"
                       THEN [e EXCEPT !.rest = Tail(e.rest)]
                       ELSE Unread))
    ELSE SqlComparison(words, truths)

\* term: factor {AND factor}, after the factors whose conjunction is left
SqlTerm(left, words, truths) ==
    IF words # <<>> /\ Head(words) = "AND"
    THEN Bind(SqlFactor(Tail(words), truths),
              LAMBDA f : IF f.ok THEN SqlTerm(left /\ f.val, f.rest, truths) ELSE Unread)
    ELSE [ok |-> TRUE, val |-> left, rest |-> words]

\* expression: term {OR term}, after the terms whose disjunction is left
SqlExpression(left, words, truths) ==
    IF words # <<>> /\ Head(words) = "OR"
    THEN Bind(Bind(SqlFactor(Tail(words), truths),
                   LAMBDA f : IF f.ok THEN SqlTerm(f.val, f.rest, truths) ELSE Unread),
              LAMBDA t :
                IF t.ok THEN SqlExpression(left \/ t.val, t.rest, truths) ELSE Unread)
    ELSE [ok |-> TRUE, val |-> left, rest |-> words]

\* the value of a whole clause: "unreadable" when it is not an expression
Reads(words, truths) ==
    LET t == Bind(SqlFactor(words, truths),
                  LAMBDA f : IF f.ok THEN SqlTerm(f.val, f.rest, truths) ELSE Unread)
        e == IF t.ok THEN SqlExpression(t.val, t.rest, truths) ELSE Unread
    IN  IF e.ok /\ e.rest = <<>> THEN (IF e.val THEN "true" ELSE "false")
        ELSE "unreadable"

\* the comparison a leaf stands for, as the contract writes it
Comparison(key, op, val) ==
    LET sign == CASE op = "=" -> "="
                  [] op = "$ne" -> "!="
                  [] op = "$lt" -> "<"
                  [] op = "$gt" -> ">"
                  [] op = "$lte" -> "<="
                  [] op = "$gte" -> ">="
                  [] OTHER -> "REGEXP"
        listed == Join([x \in 1..Len(val.s) |-> json_dumps(val.s[x])], ",")
    IN  IF op = "$in" THEN <<key, "IN", "(">> \o listed \o <<")">>
        ELSE IF op = "$nin" THEN <<key, "NOT", "IN", "(">> \o listed \o <<")">>
        ELSE <<key, sign, "'">> \o Text(val) \o <<"'">>

ComparisonOperators == {"$ne", "$lt", "$gt", "$lte", "$gte", "$in", "$nin", "$regex"}

\* the value of a tree: keys and the operators of a field are conjoined, $and
\* and $or are the conjunction and the disjunction of their items, $not negates
RECURSIVE Holds(_, _)
Holds(tree, truths) ==
    \A key \in DOMAIN tree.d :
        LET value == tree.d[key]
        IN  IF key = "$and" THEN \A i \in 1..Len(value.s) : Holds(value.s[i], truths)
            ELSE IF key = "$or" THEN \E i \in 1..Len(value.s) : Holds(value.s[i], truths)
            ELSE IF key = "$not" THEN ~Holds(value, truths)
            ELSE IF value.k = "dict"
            THEN \A op \in DOMAIN value.d :
                     IF op = "$not"
                     THEN ~Holds(Dict(<< <<key, value.d[op]>> >>), truths)
                     ELSE op \in ComparisonOperators
                          => Comparison(key, op, value.d[op]) \in truths
            ELSE Comparison(key, "=", value) \in truths

\* the comparisons of a tree
RECURSIVE Comparisons(_)
Comparisons(tree) ==
    UNION {LET value == tree.d[key]
           IN  IF key \in {"$and", "$or"}
               THEN UNION {Comparisons(value.s[i]) : i \in 1..Len(value.s)}
               ELSE IF key = "$not" THEN Comparisons(value)
               ELSE IF value.k = "dict"
               THEN UNION {IF op = "$not"
                           THEN Comparisons(Dict(<< <<key, value.d[op]>> >>))
                           ELSE IF op \in ComparisonOperators
                           THEN {Comparison(key, op, value.d[op])}
                           ELSE {} : op \in DOMAIN value.d}
               ELSE {Comparison(key, "=", value)} : key \in DOMAIN tree.d}

\* a tree built from $and / $or / $not nodes and leaves using scalar equality
\* or the operators of the contract ($options goes with $regex)
RECURSIVE Translatable(_)
Translatable(tree) ==
    /\ tree.k = "dict"
    /\ Len(tree.s) > 0
    /\ \A key \in DOMAIN tree.d :
        LET value == tree.d[key]
        IN  IF key \in {"$and", "$or"}
            THEN /\ Len(value.s) > 0
                 /\ \A i \in 1..Len(value.s) : Translatable(value.s[i])
            ELSE IF key = "$not" THEN Translatable(value)
            ELSE IF value.k = "dict"
            THEN /\ DOMAIN value.d \cap (ComparisonOperators \cup {"$not"}) # {}
                 /\ \A op \in DOMAIN value.d :
                      \/ op \in ComparisonOperators
                      \/ op = "$options" /\ "$regex" \in DOMAIN value.d
                      \/ op = "$not" /\ Translatable(Dict(<< <<key, value.d[op]>> >>))
            ELSE value.k \in {"str", "int", "float", "bool", "NoneType"}

\* a single quote in the text of a value, at any depth
RECURSIVE HasQuote(_)
HasQuote(value) ==
    \/ value.k = "str" /\ \E i \in 1..Len(value.s) : value.s[i] = "'"
    \/ value.k \in {"list", "tuple"} /\ \E i \in 1..Len(value.s) : HasQuote(value.s[i])
    \/ value.k = "dict" /\ \E key \in DOMAIN value.d : HasQuote(value.d[key])

\* to_sql has the structure of the statements
SameStructure(sql, statements) ==
    IF Len(statements.s) = 0
    THEN sql = <<"SELECT", "*", "FROM", collection_name>>
    ELSE /\ Len(sql) > 5
         /\ SubSeq(sql, 1, 5) = <<"SELECT", "*", "FROM", collection_name, "WHERE">>
         /\ \A truths \in SUBSET Comparisons(statements) :
                Reads(WhereClause(sql), truths)
                  = (IF Holds(statements, truths) THEN "true" ELSE "false")

\* C19: for every statement tree built from $and / $or / $not nodes and leaves
\* using scalar equality, $ne, $lt, $gt, $lte, $gte, $in, $nin or $regex, the
\* WHERE clause of to_sql, read with the precedence of SQL, has the boolean
\* structure of the tree; with no statements to_sql is SELECT * FROM
\* <collection> with no WHERE.
C19_SameStructure ==
    (call.op = "to_sql"
       /\ (Len(select.statements.s) = 0 \/ Translatable(select.statements)))
    => SameStructure(call.ret, select.statements)

\* C19, amended: the same, for trees whose values have no single quote in
\* their text.
C19_SameStructureUnquoted ==
    (call.op = "to_sql"
       /\ (Len(select.statements.s) = 0
             \/ (Translatable(select.statements) /\ ~HasQuote(select.statements))))
    => SameStructure(call.ret, select.statements)

\* to_sql of a conjunction that holds a disjunction, next to a second statement
C19_Witness ==
    /\ call.op = "to_sql"
    /\ Len(select.statements.s) = 2
    /\ Translatable(select.statements)
    /\ ~HasQuote(select.statements)
    /\ "$and" \in DOMAIN select.statements.d
    /\ \E i \in 1..Len(select.statements.d["$and"].s) :
          "$or" \in DOMAIN select.statements.d["$and"].s[i].d
    /\ Len(call.ret) > 5

\* a $__function__ leaf in a value, at any depth
RECURSIVE HasFunctionLeaf(_)
HasFunctionLeaf(value) ==
    \/ value.k = "list" /\ \E i \in 1..Len(value.s) : HasFunctionLeaf(value.s[i])
    \/ value.k = "dict"
         /\ \/ "$__function__" \in DOMAIN value.d
            \/ \E key \in DOMAIN value.d : HasFunctionLeaf(value.d[key])

\* the key of a tree is the field of a function leaf
IsFunctionLeaf(tree, key) ==
    /\ key \notin {"$and", "$or", "$not"}
    /\ tree.d[key].k = "dict"
    /\ "$__function__" \in DOMAIN tree.d[key].d

\* the function leaves of a tree as (field, function info), in the order of
\* a traversal: key by key, the items of a list one after the other
RECURSIVE FunctionLeaves(_, _)
RECURSIVE FunctionLeavesOfItems(_, _)
FunctionLeavesOfItems(items, i) ==
    IF i > Len(items) THEN <<>>
    ELSE FunctionLeaves(items[i], 1) \o FunctionLeavesOfItems(items, i + 1)

FunctionLeaves(tree, i) ==
    IF i > Len(tree.s) THEN <<>>
    ELSE LET key == tree.s[i]
             value == tree.d[key]
             here == IF IsFunctionLeaf(tree, key)
                     THEN << PyTuple(<<Token(key), value.d["$__function__"]>>) >>
                     ELSE IF key \in {"$and", "$or", "$not"} /\ value.k = "list"
                     THEN FunctionLeavesOfItems(value.s, 1)
                     ELSE IF key \in {"$and", "$or", "$not"} /\ value.k = "dict"
                     THEN FunctionLeaves(value, 1)
                     ELSE <<>>
         IN  here \o FunctionLeaves(tree, i + 1)

\* the residual keeps every $and / $or / $not node and every leaf that is not
\* a function leaf where it is in the tree, and has nothing else
RECURSIVE Kept(_, _)
Kept(tree, residual) ==
    /\ residual.k = "dict"
    /\ residual.s = SelectSeq(tree.s, LAMBDA key : ~IsFunctionLeaf(tree, key))
    /\ DOMAIN residual.d = {key \in DOMAIN tree.d : ~IsFunctionLeaf(tree, key)}
    /\ \A key \in DOMAIN residual.d :
         IF key \in {"$and", "$or", "$not"} /\ tree.d[key].k = "list"
         THEN /\ residual.d[key].k = "list"
              /\ Len(residual.d[key].s) = Len(tree.d[key].s)
              /\ \A i \in 1..Len(tree.d[key].s) :
                     Kept(tree.d[key].s[i], residual.d[key].s[i])
         ELSE IF key \in {"$and", "$or", "$not"} /\ tree.d[key].k = "dict"
         THEN Kept(tree.d[key], residual.d[key])
         ELSE residual.d[key] = tree.d[key]

\* C20: _extract_function_filters(tree) returns (residual, filters): the
\* residual has no $__function__ leaf at any depth; every function leaf of the
\* tree is once in filters as (field, function info), in traversal order;
\* every other leaf and every $and / $or / $not node is in the residual where
\* it is in the tree; the tree is as it was; without function leaves the
\* residual is the tree and filters is empty.
C20_FunctionFiltersSplit ==
    call.op = "_extract_function_filters"
    => /\ ~HasFunctionLeaf(call.ret[1])
       /\ call.ret[2] = FunctionLeaves(call.conditions, 1)
       /\ Kept(call.conditions, call.ret[1])
       /\ select.statements = call.conditions
       /\ ~HasFunctionLeaf(call.conditions)
            => (call.ret[1] = call.conditions /\ call.ret[2] = <<>>)

\* the split of a tree with a function leaf in a disjunction in a conjunction,
\* and a second function leaf after it
C20_Witness ==
    /\ call.op = "_extract_function_filters"
    /\ Len(call.ret[2]) = 2
    /\ call.ret[2][1].s[1] = Token("rank")
    /\ call.ret[2][2].s[1] = Token("name")
    /\ "$and" \in DOMAIN call.conditions.d
    /\ "$or" \in DOMAIN call.conditions.d["$and"].s[1].d
    /\ "$and" \in DOMAIN call.ret[1].d

(***************************************************************************)
(* Function filters, and the queries of a Select against the store.        *)
(* The functions are the caller's: rank_of is lambda d: d.rank, name_of is *)
(* lambda d: d.name and plus is lambda d, n=1: d.rank + n.  A view is the  *)
(* attributes of a DocWrapper.                                             *)
(***************************************************************************)
\* func(doc_wrapper, *args): [raised, ret]
CallFunction(func, args, view) ==
    LET attribute == IF func = "name_of" THEN "name" ELSE "rank"
        n == IF args = <<>> THEN 1 ELSE args[1].n
    IN  IF attribute \notin DOMAIN view
        THEN [raised |-> "AttributeError", ret |-> None]
        ELSE IF func # "plus"
        THEN [raised |-> "None", ret |-> view[attribute]]
        ELSE IF view[attribute].k # "int"
        THEN [raised |-> "TypeError", ret |-> None]
        ELSE [raised |-> "None", ret |-> PyInt(view[attribute].n + n)]

\* the place of a one-letter str in the order of str
Ordinal(value) ==
    IF value.s = <<>> THEN 0
    ELSE CHOOSE i \in 1..4 : <<"A", "B", "a", "b">>[i] = value.s[1]

\* result <op> compare_value: "true", "false" or "TypeError"
Compare(operator, result, value) ==
    LET ordered == result.k = value.k /\ result.k \in {"int", "str"}
        l == IF result.k = "int" THEN result.n ELSE Ordinal(result)
        r == IF value.k = "int" THEN value.n ELSE Ordinal(value)
        truth(b) == IF b THEN "true" ELSE "false"
    IN  CASE operator = "$eq" -> truth(result = value)
          [] operator = "$ne" -> truth(result # value)
          [] operator \in {"$lt", "$gt", "$lte", "$gte"} /\ ~ordered -> "TypeError"
          [] operator = "$lt" -> truth(l < r)
          [] operator = "$gt" -> truth(l > r)
          [] operator = "$lte" -> truth(l <= r)
          [] operator = "$gte" -> truth(l >= r)
          [] OTHER -> "true"

\* the loop over func_info["functions"], from the i-th on: the result of the
\* chain, each result wrapped as DocWrapper({field_name: result})
RECURSIVE ApplyChain(_, _, _, _, _)
ApplyChain(field_name, functions, i, view, result) ==
    IF i > Len(functions)
    THEN [raised |-> "None", ret |-> result]
    ELSE Bind(CallFunction(functions[i].s[1].s[1], functions[i].s[2].s, view),
              LAMBDA called :
                IF called.raised # "None"
                THEN called
                ELSE ApplyChain(field_name, functions, i + 1,
                                [x \in {field_name} |-> called.ret], called.ret))

\* the loop over function_filters for one document, from the i-th on: "true"
\* (match), "false", or the exception raised
RECURSIVE MatchFilters(_, _, _)
MatchFilters(doc, function_filters, i) ==
    IF i > Len(function_filters)
    THEN "true"
    ELSE
      LET field_name == function_filters[i].s[1].s[1]
          func_info == function_filters[i].s[2].d
      IN  Bind(ApplyChain(field_name, func_info["functions"].s, 1, doc, None),
               LAMBDA chain :
                 IF chain.raised # "None"
                 THEN chain.raised
                 ELSE Bind(Compare(func_info["operator"].s[1], chain.ret,
                                   func_info["value"]),
                           LAMBDA compared :
                             IF compared = "true"
                             THEN MatchFilters(doc, function_filters, i + 1)
                             ELSE compared))

\* the loop over the documents, from the i-th on
RECURSIVE FilterDocuments(_, _, _, _)
FilterDocuments(documents, function_filters, i, filtered) ==
    IF i > Len(documents)
    THEN [raised |-> "None", ret |-> filtered]
    ELSE Bind(MatchFilters(documents[i], function_filters, 1),
              LAMBDA match :
                IF match \notin {"true", "false"}
                THEN [raised |-> match, ret |-> <<>>]
                ELSE FilterDocuments(documents, function_filters, i + 1,
                                     IF match = "true"
                                     THEN Append(filtered, documents[i])
                                     ELSE filtered))

\* a faulty filter: a document passes when its first filter accepts it
apply_function_filters_first(documents, function_filters) ==
    IF function_filters = <<>>
    THEN [raised |-> "None", ret |-> documents]
    ELSE FilterDocuments(documents, <<function_filters[1]>>, 1, <<>>)

\* Select._apply_function_filters(documents, function_filters): [raised, ret]
apply_function_filters(documents, function_filters) ==
    IF function_filters = <<>>
    THEN [raised |-> "None", ret |-> documents]
    ELSE FilterDocuments(documents, function_filters, 1, <<>>)

\* collection.find(condition): the documents that match, in their natural order
find(documents, condition) ==
    SelectSeq(documents, LAMBDA document : Matches(document, condition))

\* the place of a value in the order of the store: null, numbers, strings
SortKey(value) ==
    IF value.k = "NoneType" THEN 0
    ELSE IF value.k = "int" THEN 10 + value.n
    ELSE 100 + Ordinal(value)

\* a document sorts strictly before another under the keys of sorts from the i-th on
RECURSIVE SortsBefore(_, _, _, _)
SortsBefore(one, other, sorts, i) ==
    IF i > Len(sorts.s)
    THEN FALSE
    ELSE LET key == sorts.s[i]
             l == SortKey(Get(one, key, None)) * sorts.d[key].n
             r == SortKey(Get(other, key, None)) * sorts.d[key].n
         IN  l < r \/ (l = r /\ SortsBefore(one, other, sorts, i + 1))

\* cursor.sort(sorts): a stable sort, the natural order without sort keys
RECURSIVE sort(_, _)
sort(documents, sorts) ==
    IF documents = <<>>
    THEN <<>>
    ELSE LET last == documents[Len(documents)]
             sorted == sort(SubSeq(documents, 1, Len(documents) - 1), sorts)
             after == {i \in 1..Len(sorted) : SortsBefore(last, sorted[i], sorts, 1)}
             at == IF after = {} THEN Len(sorted) + 1
                   ELSE CHOOSE i \in after : \A j \in after : i <= j
         IN  SubSeq(sorted, 1, at - 1) \o <<last>> \o SubSeq(sorted, at, Len(sorted))

\* cursor.skip(n) and cursor.limit(n), and the slice list[start:end]
Slice(documents, start, end) ==
    SubSeq(documents, start + 1, IF end < Len(documents) THEN end ELSE Len(documents))

\* a faulty count: the documents the store finds, the function filters not applied
Select_count_native(self, documents) ==
    [raised |-> "None",
     ret |-> PyInt(Len(find(documents, extract_function_filters(self.statements)[1])))]

\* Select.count() against the documents of the collection: [raised, ret]
Select_count(self, documents) ==
    LET split == extract_function_filters(self.statements)
    IN  IF split[2] # <<>>
        THEN Bind(apply_function_filters(find(documents, split[1]), split[2]),
                  LAMBDA filtered :
                    [raised |-> filtered.raised,
                     ret |-> IF filtered.raised = "None"
                             THEN PyInt(Len(filtered.ret)) ELSE None])
        ELSE [raised |-> "None", ret |-> PyInt(Len(find(documents, self.statements)))]

\* Select.Pagination(count, results, current=current, results_per_page=results_per_page)
Pagination(count, results, current, results_per_page) ==
    [count |-> count, results |-> results, current |-> current,
     results_per_page |-> results_per_page]

\* the body of fetch_all: [raised, ret]; the results are the documents the
\* entities of the page are made from
FetchAll(self, documents, current_, results_per_page_, function_filter_limit) ==
    LET current == IF current_ < 1 THEN 1 ELSE current_
        results_per_page == IF results_per_page_ < 1 THEN 10 ELSE results_per_page_
        split == extract_function_filters(self.statements)
        start == (current - 1) * results_per_page
    IN  IF split[2] # <<>>
        THEN
          LET cursor == sort(find(documents, split[1]), self.sorts)
              limited == IF TruthyInt(function_filter_limit)
                         THEN Slice(cursor, 0, The(function_filter_limit))
                         ELSE cursor
          IN  Bind(apply_function_filters(limited, split[2]),
                   LAMBDA filtered :
                     IF filtered.raised # "None"
                     THEN [raised |-> filtered.raised, ret |-> None]
                     ELSE [raised |-> "None",
                           ret |-> Pagination(
                                     Len(filtered.ret),
                                     Slice(filtered.ret, start, start + results_per_page),
                                     current, results_per_page)])
        ELSE
          LET found == find(documents, split[1])
              count == Len(found)
              page == Slice(sort(found, self.sorts), start, Len(found))
          IN  [raised |-> "None",
               ret |-> Pagination(
                         count,
                         IF count > 0 THEN Slice(page, 0, results_per_page) ELSE <<>>,
                         current, results_per_page)]

\* a faulty fetch_all: the count is the number of results of the page
Select_fetch_all_paged(self, documents, current, results_per_page, function_filter_limit) ==
    LET r == FetchAll(self, documents, current, results_per_page, function_filter_limit)
    IN  IF r.raised # "None" THEN r
        ELSE [r EXCEPT !.ret.count = Len(r.ret.results)]

\* Select.fetch_all(current, results_per_page, function_filter_limit)
Select_fetch_all(self, documents, current, results_per_page, function_filter_limit) ==
    FetchAll(self, documents, current, results_per_page, function_filter_limit)


(***************************************************************************)
(* QuerySpec: the collection of Parent holds documents with a name and a   *)
(* rank; a caller narrows and sorts a Select, counts, fetches pages and    *)
(* applies function filters.  store["Parent"] is the documents by their    *)
(* place in the natural order of the collection.                           *)
(***************************************************************************)
\* the pages a caller asks for, the sizes of a page, the limits
MaxPage == 4

MaxPageSize == 2

MaxLimit == 2

\* a document with a name and a rank
Document(name, rank) ==
    [x \in {"name", "rank"} |-> IF x = "name" THEN name ELSE rank]

\* the contents of the collection
Collections ==
    LET a1 == Document(Token("a"), PyInt(1))
        a2 == Document(Token("a"), PyInt(2))
        b2 == Document(Token("b"), PyInt(2))
        b0 == Document(Token("b"), None)
    IN  {<<>>, <<a2>>, <<b2, a1, a2>>, <<a2, b0, b2>>}

\* a Statement with function steps
Chained(name, steps) ==
    Statement(name, [i \in 1..Len(steps) |->
                       PyTuple(<<PyFn(steps[i][1]), PyTuple(steps[i][2])>>)])

\* the function leaves of the queries
RankIs2 == Statement_compare(Chained("rank", << <<"rank_of", <<>> >> >>), "__eq__", PyInt(2))

NameIsNotA == Statement_compare(Chained("name", << <<"name_of", <<>> >> >>), "__ne__", Token("a"))

RankPlusOver2 == Statement_compare(Chained("rank", << <<"plus", <<>> >> >>), "__gt__", PyInt(2))

RankPlusPlusOver3 ==
    Statement_compare(Chained("rank", << <<"plus", <<>> >>, <<"plus", <<PyInt(2)>> >> >>),
                      "__ge__", PyInt(5))

NameRankPlus ==
    Statement_compare(Chained("name", << <<"rank_of", <<>> >>, <<"plus", <<>> >> >>),
                      "__gt__", PyInt(1))

FunctionLeaves2 == {RankIs2, NameIsNotA, RankPlusOver2, RankPlusPlusOver3, NameRankPlus}

\* the conditions a caller passes to one where()
Queries ==
    LET a == Statement_compare(NameStatement, "__eq__", Token("a"))
        over1 == Statement_compare(RankStatement, "__gt__", PyInt(1))
    IN  {<<x>> : x \in {a, over1} \cup FunctionLeaves2}
        \cup {<<a, RankIs2>>, <<over1, NameIsNotA>>, <<a, RankPlusOver2>>,
              <<Select_at_least(<<a, RankIs2>>)>>,
              <<Select_at_least(<<NameIsNotA, over1>>)>>,
              <<Select_at_least(<<a, over1>>)>>,
              <<Select_match(<<a, RankIs2>>)>>,
              <<Select_match(<<RankIs2, NameIsNotA>>)>>,
              <<Select_match(<<over1, RankPlusOver2>>)>>,
              <<Select_match(<<Select_match(<<NameIsNotA, over1>>), RankIs2>>)>>,
              <<Select_at_least(<<Select_match(<<a, RankIs2>>), over1>>)>>,
              <<Select_not_match(<<RankIs2>>)>>,
              <<Statement_is_not_between(RankStatement, PyInt(2), PyInt(3))>>,
              <<Statement_is_between(RankStatement, PyInt(2), PyInt(3))>>}

QueryInit ==
    /\ fields = NoEntries
    /\ input = Field("str", None, 1, "None", NoConstraint)
    /\ heap = <<>>
    /\ \E documents \in Collections :
         store = [cls \in FlexmodelClasses |->
                    IF cls = "Parent" THEN documents ELSE NoEntries]
    /\ clock = 0
    /\ uuids = 2
    /\ select = NewSelect
    /\ stmts = <<>>
    /\ call = NoCall

\* select.where(*conditions), once
QueryWhereStep ==
    /\ Len(select.statements.s) = 0
    /\ \E conditions \in Queries :
        /\ select' = Select_where(select, conditions)
        /\ call' = [op |-> "where"]
    /\ UNCHANGED <<fields, input, heap, store, clock, uuids, stmts>>

\* select.sort(select.rank.desc())
QuerySortStep ==
    /\ select' = Select_sort(select, << Dict(<< <<"rank", PyInt(-1)>> >>) >>)
    /\ call' = [op |-> "sort"]
    /\ UNCHANGED <<fields, input, heap, store, clock, uuids, stmts>>

\* select._apply_function_filters(documents, function_filters), for the
\* documents of the collection and the function filters of the statements
ApplyStep ==
    /\ \E r \in {apply_function_filters(
                   store["Parent"], extract_function_filters(select.statements)[2])} :
         call' = [op |-> "_apply_function_filters",
                  documents |-> store["Parent"],
                  function_filters |-> extract_function_filters(select.statements)[2],
                  ret |-> r.ret, raised |-> r.raised]
    /\ UNCHANGED <<fields, input, heap, store, clock, uuids, select, stmts>>

\* select.count()
SelectCountStep ==
    /\ \E r \in {Select_count(select, store["Parent"])} :
         call' = [op |-> "select.count", ret |-> r.ret, raised |-> r.raised]
    /\ UNCHANGED <<fields, input, heap, store, clock, uuids, select, stmts>>

\* select.fetch_all(current, results_per_page, function_filter_limit)
FetchAllStep ==
    /\ \E current \in 0..MaxPage, results_per_page \in 0..MaxPageSize,
          function_filter_limit \in {{}} \cup {{n} : n \in 1..MaxLimit} :
         \E r \in {Select_fetch_all(select, store["Parent"], current,
                                    results_per_page, function_filter_limit)} :
           call' = [op |-> "fetch_all", current |-> current,
                    results_per_page |-> results_per_page,
                    function_filter_limit |-> function_filter_limit,
                    ret |-> r.ret, raised |-> r.raised]
    /\ UNCHANGED <<fields, input, heap, store, clock, uuids, select, stmts>>

QueryNext ==
    \/ QueryWhereStep
    \/ QuerySortStep
    \/ ApplyStep
    \/ SelectCountStep
    \/ FetchAllStep

QuerySpec == QueryInit /\ [][QueryNext]_vars

(***************************************************************************)
(* Claims about the queries, under QuerySpec.                              *)
(***************************************************************************)
\* r after the first i functions of a filter: the first function sees the
\* whole document, a later one only the result before it under the field's name
RECURSIVE ChainResult(_, _, _)
ChainResult(filter, doc, i) ==
    LET functions == filter.s[2].d["functions"].s
        func == functions[i].s[1].s[1]
        args == functions[i].s[2].s
    IN  IF i = 1
        THEN CallFunction(func, args, doc)
        ELSE Bind(ChainResult(filter, doc, i - 1),
                  LAMBDA before :
                    IF before.raised # "None"
                    THEN before
                    ELSE CallFunction(func, args,
                                      [x \in {filter.s[1].s[1]} |-> before.ret]))

\* a filter (field, {functions, operator, value}) on a document: "true" when
\* op(r, value) holds, "false" when it does not, otherwise what is raised
Accepts(filter, doc) ==
    LET info == filter.s[2].d
        r == ChainResult(filter, doc, Len(info["functions"].s))
    IN  IF r.raised # "None" THEN r.raised
        ELSE Compare(info["operator"].s[1], r.ret, info["value"])

\* every filter accepts the document
AllAccept(function_filters, doc) ==
    \A i \in 1..Len(function_filters) : Accepts(function_filters[i], doc) = "true"

\* C21: _apply_function_filters(documents, filters) returns exactly the
\* documents, in their order and as they are, that every filter accepts; a
\* filter accepts a document iff op(r, value) holds, r being the result of the
\* chain; with no filter all documents are returned.  (When it raises, a
\* function or a comparison of some filter raises on some document.)
C21_FunctionFiltersAccept ==
    call.op = "_apply_function_filters"
    => /\ call.raised = "None"
            => call.ret = SelectSeq(call.documents,
                                    LAMBDA doc : AllAccept(call.function_filters, doc))
       /\ call.function_filters = <<>>
            => (call.raised = "None" /\ call.ret = call.documents)
       /\ call.raised # "None"
            => \E i \in 1..Len(call.documents), j \in 1..Len(call.function_filters) :
                   Accepts(call.function_filters[j], call.documents[i])
                     \notin {"true", "false"}

\* two filters applied to three documents, of which one passes
C21_Witness ==
    /\ call.op = "_apply_function_filters"
    /\ call.raised = "None"
    /\ Len(call.function_filters) = 2
    /\ Len(call.documents) = 3
    /\ Len(call.ret) = 1

\* the statements are at_least(A, F) or at_least(F, A): one native leaf A and
\* one function leaf F in an $or
IsNativeOrFunction(statements) ==
    /\ statements.s = <<"$or">>
    /\ Len(statements.d["$or"].s) = 2
    /\ Cardinality({i \in 1..2 : HasFunctionLeaf(statements.d["$or"].s[i])}) = 1
    /\ \A i \in 1..2 : Len(statements.d["$or"].s[i].s) = 1
                       /\ statements.d["$or"].s[i].s[1] \notin {"$and", "$or", "$not"}

\* the items of the $or: the native leaf and the function filter
NativeItem(statements) ==
    LET items == statements.d["$or"].s
    IN  items[CHOOSE i \in 1..2 : ~HasFunctionLeaf(items[i])]

FunctionItem(statements) ==
    LET items == statements.d["$or"].s
    IN  FunctionLeaves(items[CHOOSE i \in 1..2 : HasFunctionLeaf(items[i])], 1)[1]

\* count() and fetch_all() select the documents that are selected: the count
\* is their number and the page is cut from them
Selects(selected) ==
    /\ call.op = "select.count" => call.ret = PyInt(Len(selected))
    /\ call.op = "fetch_all"
         => /\ call.ret.count = Len(selected)
            /\ call.ret.results
                 = Slice(sort(selected, select.sorts),
                         (call.ret.current - 1) * call.ret.results_per_page,
                         call.ret.current * call.ret.results_per_page)

\* a count, or a fetch_all without function_filter_limit, that returned
Counted ==
    /\ call.op \in {"select.count", "fetch_all"}
    /\ call.raised = "None"
    /\ call.op = "fetch_all" => call.function_filter_limit = {}

C23_Pages ==
    (Counted /\ call.op = "fetch_all" /\ call.current >= 1 /\ call.results_per_page >= 1
       /\ Select_count(select, store["Parent"]).raised = "None")
    => LET N == Select_count(select, store["Parent"]).ret.n
           P == call.results_per_page
           k == call.current
           pages == (N + P - 1) \div P
       IN  /\ call.ret.count = N
           /\ k <= pages => Len(call.ret.results) = Min(P, N - (k - 1) * P)
           /\ k = pages + 1 => Len(call.ret.results) = 0

\* the page after the last of a query with a function filter, two records
\* matching, one a page
C23_Witness ==
    /\ Counted
    /\ call.op = "fetch_all"
    /\ HasFunctionLeaf(select.statements)
    /\ call.current = 3
    /\ call.results_per_page = 1
    /\ call.ret.count = 2
    /\ call.ret.results = <<>>

\* C24: the count of a Pagination is the number of records matching the filter
\* before pagination: for the same statements and store contents, the count
\* fetch_all reports equals Select.count(), for every page number, page size
\* and function_filter_limit.
C24_CountIsTotal ==
    (call.op = "fetch_all" /\ call.raised = "None"
       /\ Select_count(select, store["Parent"]).raised = "None")
    => call.ret.count = Select_count(select, store["Parent"]).ret.n

\* the function leaves of a condition are only conjunctive: at top level, or
\* in $and lists with nothing but $and lists above them
RECURSIVE Conjunctive(_)
Conjunctive(condition) ==
    \A key \in DOMAIN condition.d :
        IF key = "$and"
        THEN \A i \in 1..Len(condition.d[key].s) : Conjunctive(condition.d[key].s[i])
        ELSE IF key \in {"$or", "$not"}
        THEN ~HasFunctionLeaf(condition.d[key])
        ELSE TRUE

\* a document satisfies the original tree: the native leaves as the store
\* evaluates them, a function leaf as op(chain result, value)
RECURSIVE Satisfies(_, _)
Satisfies(doc, condition) ==
    \A key \in DOMAIN condition.d :
        LET value == condition.d[key]
        IN  IF key = "$and"
            THEN \A i \in 1..Len(value.s) : Satisfies(doc, value.s[i])
            ELSE IF key = "$or"
            THEN \E i \in 1..Len(value.s) : Satisfies(doc, value.s[i])
            ELSE IF key = "$not"
            THEN ~Satisfies(doc, value)
            ELSE IF IsFunctionLeaf(condition, key)
            THEN Accepts(PyTuple(<<Token(key), value.d["$__function__"]>>), doc) = "true"
            ELSE Matches(doc, Dict(<< <<key, value>> >>))

\* C27: splitting a query is sound when the function leaves are only
\* conjunctive: count() and the pages of fetch_all (without
\* function_filter_limit) select exactly the records that satisfy the original
\* tree.
C27_SplitIsSound ==
    (Counted /\ Conjunctive(select.statements))
    => Selects(SelectSeq(store["Parent"],
                         LAMBDA doc : Satisfies(doc, select.statements)))

\* the first page of a conjunction of two function leaves that one record of
\* three satisfies
C27_Witness ==
    /\ Counted
    /\ call.op = "fetch_all"
    /\ Len(extract_function_filters(select.statements)[2]) = 2
    /\ Conjunctive(select.statements)
    /\ Len(store["Parent"]) = 3
    /\ call.ret.count = 1
    /\ Len(call.ret.results) = 1

(***************************************************************************)
(* NumericSpec: a caller builds a Field of type int or float with bounds   *)
(* and a pattern, registers it and evaluates numbers against it.           *)
(***************************************************************************)
NumericInputs ==
    {Field(type, None, nullable, "None", Constraint({}, min_length, max_length, pattern)) :
        type \in {"int", "float"}, nullable \in {0, 1},
        min_length \in {{}, {-1}, {0}, {2}},
        max_length \in {{}, {-1}, {0}, {3}},
        pattern \in {{}, {<<"2">>}}}

NumericValues ==
    {None, PyStr(<<"2">>), PyBool(TRUE)}
    \cup {PyInt(i) : i \in -2..4} \cup {PyFloat(i) : i \in -2..4}

NumericInit ==
    /\ fields = NoEntries
    /\ input \in NumericInputs
    /\ heap = NoEntries
    /\ store = NoEntries
    /\ clock = 0
    /\ uuids = 0
    /\ select = NewSelect
    /\ stmts = <<>>
    /\ call = NoCall

\* schema.fields[name].evaluate(value), for a number
NumericEvaluateStep ==
    \E name \in FieldNames, value \in NumericValues : Evaluate(name, value)

NumericNext == AddFieldStep \/ NumericEvaluateStep

NumericSpec == NumericInit /\ [][NumericNext]_vars

(***************************************************************************)
(* Claims about numeric fields, under NumericSpec.                         *)
(***************************************************************************)
\* evaluate(v) on a numeric field, v a non-null value of the field's type
NumericEvaluated ==
    /\ call.op = "evaluate"
    /\ fields[call.name].type \in {"int", "float"}
    /\ call.value # None
    /\ isinstance(call.value, fields[call.name].type)

\* C25: for a field of type int or float with bounds min_length = m and/or
\* max_length = M, evaluate(v) on a non-null value of that type reports a bound
\* violation exactly when v < m or v > M, for all integer bounds, zero and
\* negative bounds included.
C25_NumericBounds ==
    NumericEvaluated
    => LET c == fields[call.name].constraint
       IN  call.result.rule \in {"min", "max"}
             <=> \/ c.min_length # {} /\ call.value.n < The(c.min_length)
                 \/ c.max_length # {} /\ call.value.n > The(c.max_length)

\* C25, amended: exactly when v < m or v > M, for all positive bounds; a bound
\* that is zero or negative is not applied.
C25_PositiveNumericBounds ==
    NumericEvaluated
    => LET c == fields[call.name].constraint
       IN  call.result.rule \in {"min", "max"}
             <=> \/ c.min_length # {} /\ The(c.min_length) > 0
                      /\ call.value.n < The(c.min_length)
                 \/ c.max_length # {} /\ The(c.max_length) > 0
                      /\ call.value.n > The(c.max_length)

\* 4 is over the bound 3 of an int field whose lower bound 2 it passes
C25_Witness ==
    /\ NumericEvaluated
    /\ fields[call.name].type = "int"
    /\ fields[call.name].constraint.min_length = {2}
    /\ fields[call.name].constraint.max_length = {3}
    /\ call.value = PyInt(4)
    /\ call.result = Message("max", 0)

\* the text of a number: str(value)
NumberText(value) ==
    LET digits == <<Digits[(IF value.n < 0 THEN -value.n ELSE value.n) + 1]>>
        sign == IF value.n < 0 THEN <<"-">> ELSE <<>>
    IN  IF value.k = "bool" THEN TextOf(value)
        ELSE IF value.k = "float" THEN sign \o digits \o <<".", "0">>
        ELSE sign \o digits

\* C26: the pattern step of evaluate applies to every scalar type for which
\* add_field accepts a pattern: for a field of type int or float declared with
\* a pattern, evaluate rejects a value of that type whose text does not match
\* the pattern.
C26_PatternOnNumbers ==
    (/\ NumericEvaluated
     /\ TruthyStr(fields[call.name].constraint.pattern)
     /\ ~re_match(The(fields[call.name].constraint.pattern), NumberText(call.value)))
    => call.result # NoMessage

(***************************************************************************)
(* More claims about the queries, under QuerySpec.                         *)
(***************************************************************************)
\* C30: is_not_between(start, end) is the negation of is_between(start, end):
\* for bounds start <= end a value v satisfies the leaf of is_not_between iff
\* v < start or v > end, the operators of a field conjoined as the store does;
\* so count() with that leaf counts the records whose rank is under start or
\* over end.
C30_NotBetweenIsNegation ==
    \A start \in 1..3, end \in 1..3 :
        (/\ start <= end
         /\ call.op = "select.count"
         /\ select.statements
              = Statement_is_not_between(RankStatement, PyInt(start), PyInt(end)))
        => call.ret
             = PyInt(Cardinality({i \in DOMAIN store["Parent"] :
                        /\ store["Parent"][i]["rank"].k = "int"
                        /\ \/ store["Parent"][i]["rank"].n < start
                           \/ store["Parent"][i]["rank"].n > end}))

(***************************************************************************)
(* GraphSpec: graphs of identity entities.  A caller creates children,     *)
(* parents that hold a child in a field, and teams that hold children in   *)
(* a list and another team (or themselves) in a field, and commits them.   *)
(***************************************************************************)
GraphClasses == {"Child", "Parent", "Team"}

TeamsOf(heap_) == {i \in 1..Len(heap_) : heap_[i].cls = "Team"}

ChildsOf(heap_) == {i \in 1..Len(heap_) : heap_[i].cls = "Child"}

\* the keyword arguments of the caller, for the constructor and for update
GraphInputs(cls) ==
    IF cls = "Team"
    THEN {NoEntries}
         \cup {[x \in {"members"} |-> PyList(<<PyObj("Child", o)>>)] :
                 o \in ChildsOf(heap)}
         \cup {[x \in {"partner"} |-> PyObj("Team", o)] : o \in TeamsOf(heap)}
    ELSE IF cls = "Parent"
    THEN {[x \in {"name"} |-> PyStr(<<"a">>)]}
         \cup {[x \in {"name", "child"} |->
                  IF x = "name" THEN PyStr(<<"a">>) ELSE PyObj("Child", o)] :
                 o \in ChildsOf(heap)}
    ELSE {NoEntries, [x \in {"label"} |-> PyStr(<<"a">>)]}

GraphCreateStep ==
    \E cls \in GraphClasses : \E data \in GraphInputs(cls) : ConstructCall(cls, data)

GraphModifyStep ==
    \E o \in Flexmodels : \E data \in GraphInputs(heap[o].cls) : UpdateCall(o, data)

GraphNext ==
    \/ GraphCreateStep
    \/ GraphModifyStep
    \/ CommitStep

GraphSpec == Init /\ [][GraphNext]_vars

\* the ids that the references {"$id": id} of a serialized value name
RECURSIVE References(_)
References(value) ==
    IF value.k = "dict"
    THEN IF "$id" \in DOMAIN value.d
         THEN {value.d["$id"]}
         ELSE UNION {References(value.d[x]) : x \in DOMAIN value.d}
    ELSE IF value.k = "list"
    THEN UNION {References(value.s[i]) : i \in 1..Len(value.s)}
    ELSE {}

\* the document the store holds for an entity in memory
Written(o) == store[heap[o].cls][IdOf(heap, o)]

\* C28: after commit(commit_all=true) returns true, every reference
\* {"$id": x} in the document written for the entity resolves: the store holds
\* a document under x, for an identity entity held in a field as for one held in
\* a list.
C28_ReferencesResolve ==
    (/\ call.op = "commit"
     /\ call.commit_all
     /\ call.raised = "None"
     /\ call.ret = PyTrue)
    => \A name \in DOMAIN Written(call.obj) :
         \A x \in References(Written(call.obj)[name]) :
           \E cls \in FlexmodelClasses : x \in DOMAIN store[cls]

\* C29: commit(commit_all=true) returns on every graph of entities, a cycle of
\* identity entities included: the recursion of is_committable and of commit
\* never exhausts the stack.
C29_CommitReturns ==
    (call.op = "commit" /\ call.commit_all) => call.raised # "RecursionError"

====
